---- MODULE Spec2Model ----
(***************************************************************************)
(* Model of the LSP transport layer of codex-rs/core:                      *)
(*   lsp_client.rs   - LspClient (handle), lsp_communication_task (the     *)
(*                     handshake, the driver loop and the reader task),    *)
(*                     handle_lsp_message, send_request                    *)
(*   lsp_handlers.rs - LspManager::get_client_for_file (the session cache) *)
(*                                                                         *)
(* A caller is one task that runs get_client_for_file for a file and then  *)
(* send_request on the handle it got.  A session is one spawned language   *)
(* server together with its lsp_communication_task.  The server is the     *)
(* environment: it may answer with any line at any time, close its output  *)
(* and make any write to its stdin fail.                                   *)
(***************************************************************************)
EXTENDS Naturals, Integers, Sequences, FiniteSets, TLC

\* ------------------------------------------------------------------ bounds
\* The number of caller tasks.  Each of them creates at most one session, so
\* there are never more sessions than callers.
NCallers == 2

Callers == 1..NCallers
Sessions == 1..NCallers
\* ids a server line may carry: 0 stands for "no id, or an id that is not a
\* u64"; 1 is the initialize id, which no slot is ever registered under; user
\* requests get 2..NCallers+1.
MsgIds == 0..(NCallers + 1)

\* --------------------------------------------------------------- catalog
\* default_lsp_configs(): language and file_extensions, in catalog order.
DefaultConfigs ==
  << [language |-> "rust",       exts |-> <<"rs">>],
     [language |-> "typescript", exts |-> <<"ts", "tsx", "js", "jsx">>],
     [language |-> "python",     exts |-> <<"py", "pyi">>],
     [language |-> "go",         exts |-> <<"go">>],
     [language |-> "java",       exts |-> <<"java">>] >>

Languages == {DefaultConfigs[i].language : i \in 1..Len(DefaultConfigs)}

\* The extensions of the files the callers ask about: a configured one and
\* an unconfigured one (a path without an extension behaves as the latter).
FileExts == {"rs", "xyz"}

SeqContains(seq, x) == \E i \in 1..Len(seq) : seq[i] = x

\* A lookup that knows only the first extension of each configuration.
FindConfigFirstExtOnly(ext) ==
  LET hits == {i \in 1..Len(DefaultConfigs) : DefaultConfigs[i].exts[1] = ext}
  IN  IF hits = {} THEN 0 ELSE CHOOSE i \in hits : \A j \in hits : i <= j

\* configs.iter().find(|cfg| cfg.file_extensions.contains(ext)): the index of
\* the first matching configuration, 0 when there is none.
FindConfig(ext) ==
  LET hits == {i \in 1..Len(DefaultConfigs) : SeqContains(DefaultConfigs[i].exts, ext)}
  IN  IF hits = {} THEN 0
      ELSE CHOOSE i \in hits : \A j \in hits : i <= j

LanguageOf(ext) == DefaultConfigs[FindConfig(ext)].language

\* ----------------------------------------------------------------- state
VARIABLES
  clients,     \* LspManager.clients: language -> session of the cached handle (0: none)
  raced,       \* history: languages for which two creations have overlapped
  nsess,       \* number of sessions spawned so far
  slang,       \* session -> language of its configuration
  cpc,         \* caller -> position
  cext,        \* caller -> extension of its file
  chandle,     \* caller -> session behind the handle it holds (0: none)
  cid,         \* caller -> request id the driver assigned to its request (0: none)
  outcome,     \* caller -> what its call returned
  tpc,         \* session -> position of lsp_communication_task
  rxAlive,     \* session -> request_rx still exists
  request_id,  \* session -> the task's request_id counter
  queue,       \* session -> the unbounded channel: callers whose LspRequest is queued
  pending,     \* session -> pending_requests: set of <<id, caller>>
  reader,      \* session -> reader task: "none", "running", "ended"
  eof,         \* session -> the server has closed its output
  wire,        \* session -> the messages the task wrote to stdin, in order
  initAck,     \* session -> the line the handshake read was the initialize response
  rxLog,       \* the lines the reader tasks have handled, in order (kept by RxSpec)
  \* one tool call at a time, the transport taken as the result of send_request
  ncalls,      \* number of tool calls that have returned
  tstage,      \* position of the running tool handler
  ttool,       \* the tool that was called
  tpath,       \* args.file_path (args.path for code_symbols)
  tisfile,     \* code_symbols: args.scope == "file" && path.is_file()
  tclient,     \* what get_client_for_file returned
  tresp,       \* what send_request returned
  tpayload,    \* the FunctionCallOutputPayload the handler returned
  \* the file system tools
  fsOps,       \* number of file tool calls so far
  disk,        \* path below cwd -> what is there
  fsCall,      \* the last file tool call: the handler, args.path, the approval policy
  fsResult,    \* what the last file tool call returned
  \* one session's task and reader, every await a step of its own
  mutex,       \* who holds the mutex of pending_requests: "free", "driver", "reader"
  dpc,         \* position of the task
  rpc,         \* position of the reader task
  rid,         \* the id of the message the reader is handling (0: none)
  table,       \* the keys of pending_requests
  stdin,       \* the chunks written to the child's stdin, in order
  cur,         \* the message send_lsp_message is writing
  rqid,        \* the task's request_id counter
  backlog      \* the texts of the requests queued on the channel

toolVars == << ncalls, tstage, ttool, tpath, tisfile, tclient, tresp, tpayload >>
fsVars == << fsOps, disk, fsCall, fsResult >>
sideVars == << toolVars, fsVars >>

mgrVars == << clients, raced, nsess, slang >>
stepVars == << mutex, dpc, rpc, rid, table, stdin, cur, rqid, backlog >>
sessVars ==
  << tpc, rxAlive, request_id, queue, pending, reader, eof, wire, initAck, rxLog, stepVars >>
callerVars == << cpc, cext, chandle, cid, outcome >>

vars == << mgrVars, callerVars, sessVars, sideVars >>

\* What the steps of the task taken one await at a time leave alone.
restVars ==
  << mgrVars, callerVars, sideVars,
     tpc, rxAlive, request_id, queue, pending, reader, eof, wire, initAck, rxLog >>

NoOutcome == [kind |-> "none", val |-> 0]
Out(k, v) == [kind |-> k, val |-> v]

\* send_request's Result<Value>: kind "ok" with the index of the raw value
\* among RawSamples, or the kind of the error.
NoResponse == [kind |-> "none", raw |-> 0]

\* FunctionCallOutputPayload: success, and of content what the claims are
\* about: what it reports, the language or error it names, the list it holds
\* (labels, uris or severities) and the diagnostics summary.
Payload(ok, what, lang, err, list, counts) ==
  [success |-> ok, what |-> what, lang |-> lang, err |-> err, list |-> list,
   counts |-> counts]

NoCounts == [errors |-> 0, warnings |-> 0, info |-> 0, hints |-> 0]
NoPayload == Payload(FALSE, "none", "", "", <<>>, NoCounts)

\* ------------------------------------------------------- the file system
\* A path is a sequence of tokens: "/" and "." stand for these characters,
\* any other token for a run of other characters; no two runs are adjacent
\* and no path ends with "/" or "..".

\* The number of file tool calls of a run.
MaxFsOps == 2

FsPaths ==
  { <<"a", ".", "txt">>, <<"d">>, <<"d", "/", "b", ".", "md">>,
    <<"d", "/", "e", "/", "c", ".", "rs">>, <<"a", ".", "txt", "/", "z">>,
    <<".", "toml">>, <<"c", ".", "json">>, <<"c", ".", "yaml">>, <<"c", ".", "yml">> }

\* The directories on the way to p.
Ancestors(p) == {SubSeq(p, 1, i - 1) : i \in {j \in 1..Len(p) : p[j] = "/"}}

FsNodes == FsPaths \cup UNION {Ancestors(p) : p \in FsPaths}

Absent == [kind |-> "absent", content |-> <<>>]
Dir == [kind |-> "dir", content |-> <<>>]
File(text) == [kind |-> "file", content |-> text]

\* The working directory the calls start from.
InitialDisk ==
  [n \in FsNodes |->
     IF n = <<"a", ".", "txt">> THEN File(<<"a", "\n", "b", "\n">>)
     ELSE IF n = <<"d">> THEN Dir
     ELSE Absent]

FsCall(op, p, policy) == [op |-> op, path |-> p, policy |-> policy]

\* What a handler returned: Ok(payload) with its success flag and what the
\* content reports, Err(..), or no return at all (a panic).
FsReturn(ret, ok, what) == [ret |-> ret, success |-> ok, what |-> what]

Init ==
  /\ clients = [l \in Languages |-> 0]
  /\ raced = {}
  /\ nsess = 0
  /\ slang = [s \in Sessions |-> ""]
  /\ cpc = [c \in Callers |-> "idle"]
  /\ cext = [c \in Callers |-> ""]
  /\ chandle = [c \in Callers |-> 0]
  /\ cid = [c \in Callers |-> 0]
  /\ outcome = [c \in Callers |-> NoOutcome]
  /\ tpc = [s \in Sessions |-> "none"]
  /\ rxAlive = [s \in Sessions |-> FALSE]
  /\ request_id = [s \in Sessions |-> 0]
  /\ queue = [s \in Sessions |-> <<>>]
  /\ pending = [s \in Sessions |-> {}]
  /\ reader = [s \in Sessions |-> "none"]
  /\ eof = [s \in Sessions |-> FALSE]
  /\ wire = [s \in Sessions |-> <<>>]
  /\ initAck = [s \in Sessions |-> FALSE]
  /\ rxLog = <<>>
  /\ ncalls = 0
  /\ tstage = "idle"
  /\ ttool = ""
  /\ tpath = <<>>
  /\ tisfile = FALSE
  /\ tclient = "none"
  /\ tresp = NoResponse
  /\ tpayload = NoPayload
  /\ fsOps = 0
  /\ disk = InitialDisk
  /\ fsCall = FsCall("none", <<>>, "Never")
  /\ fsResult = FsReturn("none", FALSE, "")
  /\ mutex = "free"
  /\ dpc = "start"
  /\ rpc = "none"
  /\ rid = 0
  /\ table = {}
  /\ stdin = <<>>
  /\ cur = [kind |-> "none", id |-> 0, text |-> <<>>]
  /\ rqid = 0
  /\ backlog = <<>>

\* ------------------------------------------------- oneshot completion slots
\* A slot whose value overwrites what a caller that gave up has returned.
DeliverAfterTimeout(oc, c, v) == [oc EXCEPT ![c] = v]

\* tx.send(v) on the slot of caller c: the value reaches the caller only
\* while it still awaits (its receiver is dropped once it has timed out).
Deliver(oc, c, v) ==
  IF cpc[c] = "waiting" /\ oc[c].kind = "none" THEN [oc EXCEPT ![c] = v] ELSE oc

PcAfter(oc) == [c \in Callers |-> IF cpc[c] = "waiting" /\ oc[c].kind # "none"
                                  THEN "done" ELSE cpc[c]]

\* ----------------------------------------------------------- LspManager
\* A lookup that never finds the cached handle.
CacheAlwaysMiss(l) == 0

\* A lookup that passes over the handle of a session whose task has ended.
CacheGetLive(l) ==
  IF clients[l] # 0 /\ tpc[clients[l]] = "failed" THEN 0 ELSE clients[l]

\* clients.get(language) under the read lock.
CacheGet(l) == clients[l]

InCreation(c) == cpc[c] = "creating"

\* get_client_for_file, up to the release of the read lock.
GetClientLookup(c, ext) ==
  /\ cpc[c] = "idle"
  /\ cext' = [cext EXCEPT ![c] = ext]
  /\ IF FindConfig(ext) = 0
       THEN /\ cpc' = [cpc EXCEPT ![c] = "done"]
            /\ outcome' = [outcome EXCEPT ![c] = Out("noserver", 0)]
            /\ UNCHANGED << chandle, raced >>
       ELSE LET l == LanguageOf(ext) IN
            IF CacheGet(l) # 0
              THEN /\ chandle' = [chandle EXCEPT ![c] = CacheGet(l)]
                   /\ cpc' = [cpc EXCEPT ![c] = "have"]
                   /\ UNCHANGED << outcome, raced >>
              ELSE /\ cpc' = [cpc EXCEPT ![c] = "creating"]
                   /\ raced' = IF \E d \in Callers \ {c} :
                                     InCreation(d) /\ LanguageOf(cext[d]) = l
                               THEN raced \cup {l} ELSE raced
                   /\ UNCHANGED << chandle, outcome >>
  /\ UNCHANGED << clients, nsess, slang, cid >>
  /\ UNCHANGED sessVars
  /\ UNCHANGED initAck
  /\ UNCHANGED rxLog
  /\ UNCHANGED stepVars
  /\ UNCHANGED sideVars

\* A failed spawn that leaves an entry behind in the cache.
CacheKeepsFailedSpawn(l) == [clients EXCEPT ![l] = nsess + 1]

\* LspClient::new returned Err: `?` leaves get_client_for_file before the
\* insert, the cache is as it was.
CacheAfterSpawnError(l) == clients

\* get_client_for_file after a miss: LspClient::new (the spawn fails, or the
\* child and its task exist on return), then clients.insert under the write
\* lock and Ok(client).  The insert reads nothing, so its place among the
\* other tasks' steps changes no outcome and it is taken with the creation.
ClientCreate(c, spawned) ==
  /\ cpc[c] = "creating"
  /\ IF spawned
       THEN /\ nsess + 1 \in Sessions
            /\ LET s == nsess + 1
                   l == LanguageOf(cext[c])
               IN
               /\ nsess' = s
               /\ slang' = [slang EXCEPT ![s] = l]
               /\ tpc' = [tpc EXCEPT ![s] = "init_write"]
               /\ rxAlive' = [rxAlive EXCEPT ![s] = TRUE]
               /\ chandle' = [chandle EXCEPT ![c] = s]
               /\ clients' = [clients EXCEPT ![l] = s]
               /\ cpc' = [cpc EXCEPT ![c] = "have"]
               /\ UNCHANGED outcome
       ELSE /\ cpc' = [cpc EXCEPT ![c] = "done"]
            /\ outcome' = [outcome EXCEPT ![c] = Out("spawnfail", 0)]
            /\ clients' = CacheAfterSpawnError(LanguageOf(cext[c]))
            /\ UNCHANGED << nsess, slang, tpc, rxAlive, chandle >>
  /\ UNCHANGED << raced, cext, cid >>
  /\ UNCHANGED << request_id, queue, pending, reader, eof, wire >>
  /\ UNCHANGED initAck
  /\ UNCHANGED rxLog
  /\ UNCHANGED stepVars
  /\ UNCHANGED sideVars

\* ------------------------------------------------------------- LspClient
\* A handle that also reports closed once the reader has met the end of the
\* server's output, while the driver loop still runs.
ClosedOnEof(s) == ~rxAlive[s] \/ (eof[s] /\ reader[s] = "ended")

\* sender.send(request) fails exactly when the receiver has been dropped.
ChannelClosed(s) == ~rxAlive[s]

\* A channel that hands out the newest request first.
EnqueueFront(q, c) == <<c>> \o q

\* sender.send(request) on the unbounded channel: the request goes behind
\* those already sent.
Enqueue(q, c) == Append(q, c)

\* send_request up to the await of the response.
SendRequest(c) ==
  /\ cpc[c] = "have"
  /\ LET s == chandle[c] IN
     /\ IF ChannelClosed(s)
          THEN /\ cpc' = [cpc EXCEPT ![c] = "done"]
               /\ outcome' = [outcome EXCEPT ![c] = Out("closed", 0)]
               /\ UNCHANGED queue
          ELSE /\ queue' = [queue EXCEPT ![s] = Enqueue(@, c)]
               /\ cpc' = [cpc EXCEPT ![c] = "waiting"]
               /\ UNCHANGED outcome
  /\ UNCHANGED << cext, chandle, cid >>
  /\ UNCHANGED mgrVars
  /\ UNCHANGED << tpc, rxAlive, request_id, pending, reader, eof, wire >>
  /\ UNCHANGED initAck
  /\ UNCHANGED rxLog
  /\ UNCHANGED stepVars
  /\ UNCHANGED sideVars

\* A timeout that tears down the session's table.
PendingClearedOnTimeout(c) == [pending EXCEPT ![chandle[c]] = {}]

\* The pending table after a caller's timeout: send_request does not touch it.
PendingAfterTimeout(c) == pending

\* An await of the response without a timer.
AwaitWithoutTimer(c) == FALSE

\* timeout(10 s, response_rx): the timer can expire while the caller awaits
\* and no value has been sent on its slot.
TimerCanExpire(c) == cpc[c] = "waiting" /\ outcome[c].kind = "none"

\* timeout(10 s, response_rx) expires before a value was sent.
Timeout(c) ==
  /\ TimerCanExpire(c)
  /\ cpc' = [cpc EXCEPT ![c] = "done"]
  /\ outcome' = [outcome EXCEPT ![c] = Out("timeout", 0)]
  /\ pending' = PendingAfterTimeout(c)
  /\ UNCHANGED << cext, chandle, cid >>
  /\ UNCHANGED mgrVars
  /\ UNCHANGED << tpc, rxAlive, request_id, queue, reader, eof, wire >>
  /\ UNCHANGED initAck
  /\ UNCHANGED rxLog
  /\ UNCHANGED stepVars
  /\ UNCHANGED sideVars

\* ------------------------------------------------ lsp_communication_task
WireMsg(k, i) == [kind |-> k, id |-> i]

\* send_lsp_message: the message is on the wire when the write succeeded.
Written(w, ok, k, i) == IF ok THEN Append(w, WireMsg(k, i)) ELSE w

\* Queued requests that outlive the task's receiver.
QueueOutlivesTask(q, c) == FALSE

\* The LspRequest of caller c is dropped with the receiver: it is in the
\* queue q when the task returns.
DroppedWithQueue(q, c) == SeqContains(q, c)

\* The task returns on a failed handshake: request_rx is dropped and with it
\* every queued LspRequest and its response_tx.
HandshakeFail(s) ==
  /\ tpc' = [tpc EXCEPT ![s] = "failed"]
  /\ rxAlive' = [rxAlive EXCEPT ![s] = FALSE]
  /\ queue' = [queue EXCEPT ![s] = <<>>]
  /\ LET oc == [c \in Callers |->
                  IF DroppedWithQueue(queue[s], c) /\ cpc[c] = "waiting" /\ outcome[c].kind = "none"
                  THEN Out("cancelled", 0) ELSE outcome[c]]
     IN  /\ outcome' = oc
         /\ cpc' = PcAfter(oc)

\* initialize_lsp_server: *request_id += 1 and the write of initialize.
InitWrite(s, ok) ==
  /\ tpc[s] = "init_write"
  /\ request_id' = [request_id EXCEPT ![s] = @ + 1]
  /\ wire' = [wire EXCEPT ![s] = Written(@, ok, "initialize", request_id[s] + 1)]
  /\ IF ok
       THEN /\ tpc' = [tpc EXCEPT ![s] = "init_read"]
            /\ UNCHANGED << rxAlive, queue, outcome, cpc >>
       ELSE HandshakeFail(s)
  /\ UNCHANGED << cext, chandle, cid, pending, reader, eof >>
  /\ UNCHANGED mgrVars
  /\ UNCHANGED initAck
  /\ UNCHANGED rxLog
  /\ UNCHANGED stepVars
  /\ UNCHANGED sideVars

\* A handshake that leaves out the initialized notification.
SkipInitialized(line) == "recv"

\* Where the handshake goes after reader.read_line returned Ok: on to the
\* write of the initialized notification.
AfterInitRead(line) == "init_notify"

\* What reader.read_line can return to the handshake: the line of the
\* response that carries the initialize id, a Content-Length header line, a
\* blank line, the line of another message, Ok(0) at the end of the server's
\* output, or an I/O error.
InitLines == {"initresp", "header", "blank", "other", "eof", "err"}

\* initialize_lsp_server: one read_line; any line, and end-of-file (Ok(0)),
\* lets the handshake go on; only an I/O error ends it.
InitRead(s, line) ==
  /\ tpc[s] = "init_read"
  /\ line \in InitLines
  /\ (line = "eof") => eof[s]
  /\ (line \notin {"eof", "err"}) => ~eof[s]
  /\ IF line = "err"
       THEN HandshakeFail(s)
       ELSE /\ tpc' = [tpc EXCEPT ![s] = AfterInitRead(line)]
            /\ UNCHANGED << rxAlive, queue, outcome, cpc >>
  /\ initAck' = [initAck EXCEPT ![s] = (line = "initresp")]
  /\ UNCHANGED << cext, chandle, cid, request_id, pending, reader, eof, wire >>
  /\ UNCHANGED mgrVars
  /\ UNCHANGED rxLog
  /\ UNCHANGED stepVars
  /\ UNCHANGED sideVars

\* initialize_lsp_server: the write of initialized; on success the task
\* spawns the reader and enters the driver loop.
InitNotify(s, ok) ==
  /\ tpc[s] = "init_notify"
  /\ wire' = [wire EXCEPT ![s] = Written(@, ok, "initialized", 0)]
  /\ IF ok
       THEN /\ tpc' = [tpc EXCEPT ![s] = "recv"]
            /\ reader' = [reader EXCEPT ![s] = "running"]
            /\ UNCHANGED << rxAlive, queue, outcome, cpc >>
       ELSE /\ HandshakeFail(s)
            /\ UNCHANGED reader
  /\ UNCHANGED << cext, chandle, cid, request_id, pending, eof >>
  /\ UNCHANGED mgrVars
  /\ UNCHANGED initAck
  /\ UNCHANGED rxLog
  /\ UNCHANGED stepVars
  /\ UNCHANGED sideVars

\* A removal that clears the slots of all earlier requests with it.
PendingRemoveUpTo(p, i) == {e \in p : e[1] > i}

\* A table whose entries are looked up and left in place.
PendingKept(p, i) == p

\* A driver that leaves the registration of the slot for later.
PendingInsertLate(p, i, c) == p

\* pending.insert(id, tx) and pending.remove(&id)
PendingInsert(p, i, c) == {e \in p : e[1] # i} \cup {<<i, c>>}
PendingRemove(p, i) == {e \in p : e[1] # i}
PendingGet(p, i) == {e[2] : e \in {x \in p : x[1] = i}}

\* An id taken from the number of slots in the table.
IdFromTableSize(s) == Cardinality(pending[s]) + 2

\* request_id += 1
NextRequestId(s) == request_id[s] + 1

\* Driver loop: request_rx.recv() returned a request; request_id += 1 and
\* the slot is stored under the lock.
DriverRecv(s) ==
  /\ tpc[s] = "recv"
  /\ queue[s] # <<>>
  /\ LET c == Head(queue[s])
         i == NextRequestId(s)
     IN  /\ request_id' = [request_id EXCEPT ![s] = i]
         /\ pending' = [pending EXCEPT ![s] = PendingInsert(@, i, c)]
         /\ cid' = [cid EXCEPT ![c] = i]
  /\ queue' = [queue EXCEPT ![s] = Tail(@)]
  /\ tpc' = [tpc EXCEPT ![s] = "write"]
  /\ UNCHANGED << cpc, cext, chandle, outcome, rxAlive, reader, eof, wire >>
  /\ UNCHANGED mgrVars
  /\ UNCHANGED initAck
  /\ UNCHANGED rxLog
  /\ UNCHANGED stepVars
  /\ UNCHANGED sideVars

\* A driver loop that gives up at the first write that fails.
DriverStopsOnFailure(ok) == IF ok THEN "recv" ELSE "failed"

\* Where the driver loop goes after send_lsp_message, whatever it returned:
\* back to request_rx.recv().
DriverAfterWrite(ok) == "recv"

\* Driver loop: send_lsp_message of the request; on a failure the slot is
\* removed and resolved with the send failure, and the loop goes on.
DriverWrite(s, ok) ==
  /\ tpc[s] = "write"
  /\ LET i == request_id[s] IN
     /\ wire' = [wire EXCEPT ![s] = Written(@, ok, "request", i)]
     /\ IF ok
          THEN UNCHANGED << pending, outcome, cpc >>
          ELSE LET got == PendingGet(pending[s], i)
                   oc == IF got = {} THEN outcome
                         ELSE Deliver(outcome, CHOOSE c \in got : TRUE, Out("sendfail", 0))
               IN  /\ pending' = [pending EXCEPT ![s] = PendingRemove(@, i)]
                   /\ outcome' = oc
                   /\ cpc' = PcAfter(oc)
  /\ tpc' = [tpc EXCEPT ![s] = DriverAfterWrite(ok)]
  /\ UNCHANGED << cext, chandle, cid, rxAlive, request_id, queue, reader, eof >>
  /\ UNCHANGED mgrVars
  /\ UNCHANGED initAck
  /\ UNCHANGED rxLog
  /\ UNCHANGED stepVars
  /\ UNCHANGED sideVars

\* ------------------------------------------------------------ reader task
\* A line of the server's output.  line: "blank", "header" (Content-Length:),
\* "garbage" (not JSON) or "json"; for a JSON message: its id (0: none, or not
\* a u64), whether it has an error field, a result field, a method field.
\* The payload of a message with id i is i: the client never looks into it.
Lines ==
  { [line |-> k, id |-> 0, err |-> FALSE, res |-> FALSE, method |-> FALSE]
      : k \in {"blank", "header", "garbage"} }
  \cup
  [line : {"json"}, id : MsgIds, err : BOOLEAN, res : BOOLEAN, method : BOOLEAN]

\* A reader that looks for the result field first.
ResolveResultFirst(m) ==
  IF m.res THEN Out("ok", m.id)
  ELSE IF m.err THEN Out("servererr", m.id)
  ELSE Out("invalid", 0)

\* handle_lsp_message: what the caller of a matched slot is resolved with.
ResolveOutcome(m) ==
  IF m.err THEN Out("servererr", m.id)
  ELSE IF m.res THEN Out("ok", m.id)
  ELSE Out("invalid", 0)

MinId(p) == CHOOSE i \in {e[1] : e \in p} : \A e \in p : i <= e[1]

\* A reader that takes the responses to arrive in the order of the requests.
MatchedOldest(p, m) ==
  IF m.line = "json" /\ m.id # 0 /\ p # {} THEN MinId(p) ELSE 0

\* A reader that takes a notification for the answer to the oldest request.
NotificationAnswersOldest(p, m) ==
  IF m.line # "json" THEN 0
  ELSE IF m.id = 0 /\ m.method /\ p # {} THEN MinId(p)
  ELSE m.id

\* handle_lsp_message: the key it looks up in the table p (0: none): the
\* message's own id.
MatchedId(p, m) == IF m.line = "json" THEN m.id ELSE 0

\* A reader loop that breaks when handle_lsp_message returns an error.
ReaderStopsOnGarbage(m) == IF m.line = "garbage" THEN "ended" ELSE "running"

\* The reader loop after handle_lsp_message: an Err is logged, and the loop
\* reads the next line.
ReaderAfterLine(m) == "running"

\* Reader loop: read_line returned a line; handle_lsp_message.
ReaderLine(s, m) ==
  /\ reader[s] = "running"
  /\ ~eof[s]
  /\ LET i == MatchedId(pending[s], m)
         got == IF i = 0 THEN {} ELSE PendingGet(pending[s], i)
         oc == IF got = {} THEN outcome
               ELSE Deliver(outcome, CHOOSE c \in got : TRUE, ResolveOutcome(m))
     IN  /\ pending' = [pending EXCEPT ![s] = IF i = 0 THEN @ ELSE PendingRemove(@, i)]
         /\ outcome' = oc
         /\ cpc' = PcAfter(oc)
  /\ reader' = [reader EXCEPT ![s] = ReaderAfterLine(m)]
  /\ UNCHANGED << cext, chandle, cid, tpc, rxAlive, request_id, queue, eof, wire >>
  /\ UNCHANGED mgrVars
  /\ UNCHANGED initAck
  /\ UNCHANGED stepVars
  /\ UNCHANGED sideVars

ReaderHandle(s, m) == ReaderLine(s, m) /\ UNCHANGED rxLog

\* What handle_lsp_message takes a line for: one it skips (blank, a header,
\* or, with the error logged, not JSON), a notification (a method and no
\* id), a request of the server's (a method and an id) or another message.
LineKind(m) ==
  IF m.line # "json" THEN m.line
  ELSE IF m.id = 0 /\ m.method THEN "notification"
  ELSE IF m.id # 0 /\ m.method THEN "request"
  ELSE "message"

\* The number of lines of a run whose handling is logged.
MaxLog == 2

\* The reader's step with the line it handled put on record: the session,
\* the kind of the line and the id it carries.
ReadLine(s, m) ==
  /\ Len(rxLog) < MaxLog
  /\ ReaderLine(s, m)
  /\ rxLog' = Append(rxLog, <<s, LineKind(m), m.id>>)

\* Reader loop: read_line returned Ok(0) (end of file) or Err: break.
ReaderStop(s, why) ==
  /\ reader[s] = "running"
  /\ why \in {"eof", "err"}
  /\ (why = "eof") => eof[s]
  /\ reader' = [reader EXCEPT ![s] = "ended"]
  /\ UNCHANGED << cpc, cext, chandle, cid, outcome >>
  /\ UNCHANGED << tpc, rxAlive, request_id, queue, pending, eof, wire >>
  /\ UNCHANGED mgrVars
  /\ UNCHANGED initAck
  /\ UNCHANGED rxLog
  /\ UNCHANGED stepVars
  /\ UNCHANGED sideVars

\* ----------------------------------------------------------- environment
\* The server closes its output (it exits, or closes stdout).  A running
\* reader's pending read_line then returns Ok(0) and the reader breaks; nothing
\* else reads the stream, so the two are one step.  Before the reader exists
\* the end of file is met by the handshake's read or by the reader's first.
ServerClose(s) ==
  /\ tpc[s] # "none"
  /\ ~eof[s]
  /\ eof' = [eof EXCEPT ![s] = TRUE]
  /\ reader' = [reader EXCEPT ![s] = IF @ = "running" THEN "ended" ELSE @]
  /\ UNCHANGED << cpc, cext, chandle, cid, outcome >>
  /\ UNCHANGED << tpc, rxAlive, request_id, queue, pending, wire >>
  /\ UNCHANGED mgrVars
  /\ UNCHANGED initAck
  /\ UNCHANGED rxLog
  /\ UNCHANGED stepVars
  /\ UNCHANGED sideVars

\* ------------------------------------------------------------ next-state
Next ==
  \/ \E c \in Callers, ext \in FileExts : GetClientLookup(c, ext)
  \/ \E c \in Callers, spawned \in BOOLEAN : ClientCreate(c, spawned)
  \/ \E c \in Callers : SendRequest(c)
  \/ \E c \in Callers : Timeout(c)
  \/ \E s \in Sessions, ok \in BOOLEAN : InitWrite(s, ok)
  \/ \E s \in Sessions, line \in InitLines : InitRead(s, line)
  \/ \E s \in Sessions, ok \in BOOLEAN : InitNotify(s, ok)
  \/ \E s \in Sessions : DriverRecv(s)
  \/ \E s \in Sessions, ok \in BOOLEAN : DriverWrite(s, ok)
  \/ \E s \in Sessions, m \in Lines : ReaderHandle(s, m)
  \/ \E s \in Sessions, why \in {"eof", "err"} : ReaderStop(s, why)
  \/ \E s \in Sessions : ServerClose(s)

Spec == Init /\ [][Next]_vars

\* The task and the reader of one session serving one caller, with the lines
\* the reader handles on record.
RxCallers == {1}

RxNext ==
  \/ \E c \in RxCallers, ext \in FileExts : GetClientLookup(c, ext)
  \/ \E c \in RxCallers, spawned \in BOOLEAN : ClientCreate(c, spawned)
  \/ \E c \in RxCallers : SendRequest(c)
  \/ \E c \in RxCallers : Timeout(c)
  \/ \E s \in Sessions, ok \in BOOLEAN : InitWrite(s, ok)
  \/ \E s \in Sessions, line \in InitLines : InitRead(s, line)
  \/ \E s \in Sessions, ok \in BOOLEAN : InitNotify(s, ok)
  \/ \E s \in Sessions : DriverRecv(s)
  \/ \E s \in Sessions, ok \in BOOLEAN : DriverWrite(s, ok)
  \/ \E s \in Sessions, m \in Lines : ReadLine(s, m)
  \/ \E s \in Sessions, why \in {"eof", "err"} : ReaderStop(s, why)
  \/ \E s \in Sessions : ServerClose(s)

RxSpec == Init /\ [][RxNext]_vars

\* The runtime keeps scheduling the task and the timers: a handshake write,
\* a dequeue or a request write that can be done is done, and an armed timer
\* expires.  What the server sends, and when, is up to the server.
RxFairSpec ==
  /\ RxSpec
  /\ \A c \in RxCallers : WF_vars(Timeout(c))
  /\ \A s \in Sessions :
       /\ WF_vars(\E ok \in BOOLEAN : InitWrite(s, ok))
       /\ WF_vars(\E ok \in BOOLEAN : InitNotify(s, ok))
       /\ WF_vars(DriverRecv(s))
       /\ WF_vars(\E ok \in BOOLEAN : DriverWrite(s, ok))

\* The timer of timeout(10 s, ..) is driven by the runtime: an armed timer
\* that is not disarmed by a value does expire.
FairSpec == Spec /\ \A c \in Callers : WF_vars(Timeout(c))

\* ------------------------------------------------ the end of a session
\* The handles to session s: the clone in the manager's cache, and the
\* clone of every handler that got one and has not returned.
Handles(s) ==
  {c \in Callers : chandle[c] = s /\ cpc[c] # "gone"}
    \cup {0 : l \in {k \in Languages : clients[k] = s}}

\* A driver loop that ends as soon as its queue is empty.
ExitsWhenIdle(s) == TRUE

\* request_rx.recv() returns None: every sender, one per handle, is dropped
\* (and the queue is empty).
AllSendersDropped(s) == Handles(s) = {}

\* A handler returns: its clone of the handle, if it has one, is dropped.
DropHandle(c) ==
  /\ cpc[c] = "done"
  /\ cpc' = [cpc EXCEPT ![c] = "gone"]
  /\ UNCHANGED << cext, chandle, cid, outcome >>
  /\ UNCHANGED mgrVars
  /\ UNCHANGED sessVars
  /\ UNCHANGED stepVars
  /\ UNCHANGED sideVars

\* Driver loop: recv() returned None, the loop ends and child.kill().await
\* ends the server, whose output the reader then finds closed.
DriverExit(s) ==
  /\ tpc[s] = "recv"
  /\ queue[s] = <<>>
  /\ AllSendersDropped(s)
  /\ tpc' = [tpc EXCEPT ![s] = "ended"]
  /\ rxAlive' = [rxAlive EXCEPT ![s] = FALSE]
  /\ eof' = [eof EXCEPT ![s] = TRUE]
  /\ reader' = [reader EXCEPT ![s] = IF @ = "running" THEN "ended" ELSE @]
  /\ UNCHANGED << request_id, queue, pending, wire, initAck, rxLog >>
  /\ UNCHANGED callerVars
  /\ UNCHANGED mgrVars
  /\ UNCHANGED stepVars
  /\ UNCHANGED sideVars

DropNext ==
  \/ Next
  \/ \E c \in Callers : DropHandle(c)
  \/ \E s \in Sessions : DriverExit(s)

\* The sessions with the handlers returning and the driver loops ending.
DropSpec == Init /\ [][DropNext]_vars

\* The runtime keeps scheduling the task: a dequeue, a request write or the
\* end of the loop that can be done is done; and a handler that has its
\* result returns.
DropFairSpec ==
  /\ DropSpec
  /\ \A s \in Sessions :
       /\ WF_vars(DriverRecv(s))
       /\ WF_vars(\E ok \in BOOLEAN : DriverWrite(s, ok))
       /\ WF_vars(DriverExit(s))
  /\ \A c \in Callers : WF_vars(DropHandle(c))

\* ======================================== the task, one await at a time
\* lsp_communication_task of one session with every await a step of its
\* own: taking the mutex of pending_requests, and each write_all of
\* send_lsp_message.  Callers only put requests on the channel.

\* The number of requests the callers submit in a run.
MaxQueued == 2

\* The text of a message: its characters, each with the number of bytes of
\* its UTF-8 encoding (serde_json::to_string leaves non-ASCII text as it is).
Texts == { <<1, 1>>, <<1, 2>> }

\* str::len(): the length of a string in bytes.
RECURSIVE Utf8Len(_)
Utf8Len(t) == IF t = <<>> THEN 0 ELSE Head(t) + Utf8Len(Tail(t))

\* A header that states the number of characters.
CharCount(t) == Len(t)

\* The number the Content-Length header states: content.len().
ContentLength(t) == Utf8Len(t)

Msg(k, i, t) == [kind |-> k, id |-> i, text |-> t]

\* What one write_all put on stdin of message m: the whole header with the
\* length it states, the whole body, or a part of either ("cut": the
\* write failed midway).
Chunk(part, m, n, t) == [part |-> part, kind |-> m.kind, id |-> m.id, len |-> n, text |-> t]

\* A guard of the insert that lives to the end of the loop's iteration.
HeldThroughWrite == "driver"

\* The mutex after the insert: the guard is dropped at the end of its block.
HolderAfterInsert == "free"

\* A handler calls send_request: sender.send(request).
Submit(t) ==
  /\ dpc # "failed"
  /\ Len(backlog) + rqid < MaxQueued + 1
  /\ backlog' = Append(backlog, t)
  /\ UNCHANGED << mutex, dpc, rpc, rid, table, stdin, cur, rqid >>
  /\ UNCHANGED restVars

\* initialize_lsp_server: *request_id += 1 and the initialize request.
TaskStart(t) ==
  /\ dpc = "start"
  /\ rqid' = rqid + 1
  /\ cur' = Msg("initialize", rqid + 1, t)
  /\ dpc' = "header"
  /\ UNCHANGED << mutex, rpc, rid, table, stdin, backlog >>
  /\ UNCHANGED restVars

\* Where the task goes when send_lsp_message returns Err: out of the
\* handshake, or to the removal of the request's slot.
AfterSendError(k) == IF k = "request" THEN "lock_rm" ELSE "failed"

\* send_lsp_message, one await: write_all(header), write_all(content),
\* flush; r is what the await returned.
SendStep(r) ==
  /\ dpc \in {"header", "body", "flush"}
  /\ (dpc = "flush") => r # "cut"
  /\ stdin' =
       IF dpc = "flush" \/ r = "err" THEN stdin
       ELSE IF r = "cut" THEN Append(stdin, Chunk("cut", cur, 0, <<>>))
       ELSE IF dpc = "header"
         THEN Append(stdin, Chunk("header", cur, ContentLength(cur.text), <<>>))
       ELSE Append(stdin, Chunk("body", cur, 0, cur.text))
  /\ dpc' =
       IF r # "ok" THEN AfterSendError(cur.kind)
       ELSE IF dpc = "header" THEN "body"
       ELSE IF dpc = "body" THEN "flush"
       ELSE IF cur.kind = "initialize" THEN "init_read"
       ELSE "recv"
  /\ rpc' = IF r = "ok" /\ dpc = "flush" /\ cur.kind = "initialized" THEN "read" ELSE rpc
  /\ UNCHANGED << mutex, rid, table, cur, rqid, backlog >>
  /\ UNCHANGED restVars

\* initialize_lsp_server: the one read_line, then the initialized
\* notification.
TaskInitRead(ok) ==
  /\ dpc = "init_read"
  /\ IF ok THEN cur' = Msg("initialized", 0, <<1, 1>>) /\ dpc' = "header"
           ELSE cur' = cur /\ dpc' = "failed"
  /\ UNCHANGED << mutex, rpc, rid, table, stdin, rqid, backlog >>
  /\ UNCHANGED restVars

\* Driver loop: request_rx.recv() returned a request; request_id += 1.
TaskRecv ==
  /\ dpc = "recv"
  /\ backlog # <<>>
  /\ rqid' = rqid + 1
  /\ cur' = Msg("request", rqid + 1, Head(backlog))
  /\ backlog' = Tail(backlog)
  /\ dpc' = "lock_ins"
  /\ UNCHANGED << mutex, rpc, rid, table, stdin >>
  /\ UNCHANGED restVars

\* pending_requests.lock().await returns in the task: the mutex was free.
TaskLock ==
  /\ dpc \in {"lock_ins", "lock_rm"}
  /\ mutex = "free"
  /\ mutex' = "driver"
  /\ dpc' = IF dpc = "lock_ins" THEN "insert" ELSE "remove"
  /\ UNCHANGED << rpc, rid, table, stdin, cur, rqid, backlog >>
  /\ UNCHANGED restVars

\* pending.insert(request_id, ..) and the end of the block.
TaskInsert ==
  /\ dpc = "insert"
  /\ table' = table \cup {cur.id}
  /\ mutex' = HolderAfterInsert
  /\ dpc' = "header"
  /\ UNCHANGED << rpc, rid, stdin, cur, rqid, backlog >>
  /\ UNCHANGED restVars

\* pending.remove(&request_id) after a failed send, and the end of the block.
TaskRemove ==
  /\ dpc = "remove"
  /\ table' = table \ {cur.id}
  /\ mutex' = "free"
  /\ dpc' = "recv"
  /\ UNCHANGED << rpc, rid, stdin, cur, rqid, backlog >>
  /\ UNCHANGED restVars

\* Reader: read_line returned a message with the id i, which
\* handle_lsp_message parses before it asks for the mutex.
RdRead(i) ==
  /\ rpc = "read"
  /\ rid' = i
  /\ rpc' = "lock"
  /\ UNCHANGED << mutex, dpc, table, stdin, cur, rqid, backlog >>
  /\ UNCHANGED restVars

\* pending_requests.lock().await returns in the reader.
RdLock ==
  /\ rpc = "lock"
  /\ mutex = "free"
  /\ mutex' = "reader"
  /\ rpc' = "remove"
  /\ UNCHANGED << dpc, rid, table, stdin, cur, rqid, backlog >>
  /\ UNCHANGED restVars

\* pending.remove(&request_id), the send on the slot and the end of the
\* block; the reader goes back to read_line.
RdRemove ==
  /\ rpc = "remove"
  /\ table' = table \ {rid}
  /\ mutex' = "free"
  /\ rpc' = "read"
  /\ rid' = 0
  /\ UNCHANGED << dpc, stdin, cur, rqid, backlog >>
  /\ UNCHANGED restVars

\* Reader: read_line returned Ok(0) or Err.
RdStop ==
  /\ rpc = "read"
  /\ rpc' = "ended"
  /\ UNCHANGED << mutex, dpc, rid, table, stdin, cur, rqid, backlog >>
  /\ UNCHANGED restVars

StepNext ==
  \/ \E t \in Texts : Submit(t)
  \/ \E t \in Texts : TaskStart(t)
  \/ \E r \in {"ok", "cut", "err"} : SendStep(r)
  \/ \E ok \in BOOLEAN : TaskInitRead(ok)
  \/ TaskRecv
  \/ TaskLock
  \/ TaskInsert
  \/ TaskRemove
  \/ \E i \in 1..(MaxQueued + 1) : RdRead(i)
  \/ RdLock
  \/ RdRemove
  \/ RdStop

StepSpec == Init /\ [][StepNext]_vars

\* ======================================================== the tool handlers
\* lsp_handlers.rs handle_code_*, and the typed operations of LspClient they
\* call.  One handler runs at a time; the session's transport is taken as the
\* result send_request returns, any of those it can return.

\* The number of tool calls of a run.
MaxCalls == 2

Tools == {"code_complete", "code_diagnostics", "code_definition",
          "code_references", "code_symbols", "code_hover"}

\* The handlers that go on to a typed operation of the client.
RequestTools == {"code_complete", "code_diagnostics", "code_definition"}

\* The errors of send_request.
SendErrors == {"closed", "timeout", "cancelled", "sendfail", "servererr", "invalid"}

\* ------------------------------------------------------------------ paths
\* args.file_path of the calls.
ToolPaths ==
  { <<"src", "/", "main", ".", "rs">>, <<"a", ".", "ts">>, <<"a", ".", "tsx">>,
    <<"a", ".", "js">>, <<"a", ".", "jsx">>, <<"foo", ".", "py">>,
    <<"a", ".", "pyi">>, <<"a", ".", "go">>, <<"A", ".", "java">>,
    <<"a", ".", "xyz">>, <<"Makefile">>, <<".", "rs">>, <<"a", ".">>,
    <<"v1", ".", "py", "/", "notes">>, <<"a", ".", "tar", ".", "go">> }

LastIndexOf(p, tok) ==
  LET hits == {i \in 1..Len(p) : p[i] = tok}
  IN  IF hits = {} THEN 0 ELSE CHOOSE i \in hits : \A j \in hits : j <= i

\* Path::extension of the last component: what follows its last ".", unless
\* there is none or nothing stands before it.
PathExtension(p) ==
  LET f == SubSeq(p, LastIndexOf(p, "/") + 1, Len(p))
      d == LastIndexOf(f, ".")
  IN  IF d <= 1 THEN [some |-> FALSE, ext |-> ""]
      ELSE [some |-> TRUE, ext |-> IF d = Len(f) THEN "" ELSE f[d + 1]]

\* A lookup that falls back on the first configuration.
ConfigOrDefault(p) ==
  IF PathExtension(p).some /\ FindConfig(PathExtension(p).ext) # 0
  THEN FindConfig(PathExtension(p).ext) ELSE 1

\* get_client_for_file: the configuration for the path (0: none); a path
\* without an extension is looked up as "".
ConfigForFile(p) ==
  FindConfig(IF PathExtension(p).some THEN PathExtension(p).ext ELSE "")

\* get_language_for_file(..).unwrap_or_else(|| "unknown")
LanguageOrUnknown(p) ==
  IF PathExtension(p).some /\ FindConfig(PathExtension(p).ext) # 0
  THEN LanguageOf(PathExtension(p).ext) ELSE "unknown"

\* ------------------------------------------------------------ JSON values
JNull == [t |-> "null"]
JNum(n) == [t |-> "num", v |-> n]
JStr(s) == [t |-> "str", v |-> s]
JArr(seq) == [t |-> "arr", v |-> seq]
JObj(fields) == [t |-> "obj", v |-> fields]
Missing == [t |-> "missing"]

\* The raw results a server answers a request with.
Item(l) == JObj([label |-> JStr(l)])
RangeValue ==
  JObj([start |-> JObj([line |-> JNum(0), character |-> JNum(0)]),
        end |-> JObj([line |-> JNum(0), character |-> JNum(3)])])
Loc(u) == JObj([uri |-> JStr(u), range |-> RangeValue])
Diag(sev) == JObj([range |-> RangeValue, severity |-> JNum(sev), message |-> JStr("m")])

RawSamples ==
  << JNull,
     JStr("text"),
     JObj([items |-> JArr(<<Item("bar")>>)]),
     JObj([items |-> JArr(<<Item("foo"), Item("bar")>>), isIncomplete |-> JNull]),
     JObj([items |-> JArr(<<Item("foo"), JObj([kind |-> JNum(3)])>>)]),
     JObj([items |-> JArr(<<JObj([label |-> JStr("x"), kind |-> JStr("fn")])>>)]),
     JObj([items |-> JNull]),
     JArr(<<Item("bar"), Item("foo")>>),
     JArr(<<JArr(<<JStr("bar"), JNum(3), JNull, JNull, JNull>>)>>),
     JArr(<<>>),
     JArr(<<JStr("bar")>>),
     Item("bar"),
     JObj([diagnostics |-> JArr(<<Diag(2), Diag(1), Diag(2), Diag(4), Diag(7),
              JObj([range |-> RangeValue, message |-> JStr("m")])>>)]),
     JObj([diagnostics |-> JArr(<<Diag(3), JObj([range |-> RangeValue])>>)]),
     JObj([diagnostics |-> JStr("none")]),
     JObj([uri |-> JStr(<<"file://", "/a.rs">>)]),
     Loc(<<"file://", "/a.rs">>),
     JArr(<<Loc(<<"file://", "/b.rs">>), Loc(<<"untitled:", "a">>)>>),
     JArr(<<Loc(<<"file://", "/a.rs">>), JNum(1)>>),
     JArr(<<JStr(<<"file://", "/a.rs">>), RangeValue>>),
     JObj([uri |-> JStr(<<"file://", "/a.rs">>),
           range |-> JObj([start |-> JObj([line |-> JNum(0 - 1), character |-> JNum(0)]),
                           end |-> JObj([line |-> JNum(0), character |-> JNum(3)])])]) >>

\* What send_request can return.
SendResults ==
  [kind : SendErrors, raw : {0}] \cup [kind : {"ok"}, raw : 1..Len(RawSamples)]

\* ------------------------------------------- serde_json::from_value::<T>
\* A derived struct is read from an object (an absent field is Missing) or
\* from an array holding exactly its fields in order.
StructOf(v, names) ==
  IF v.t = "obj"
    THEN [ok |-> TRUE,
          f |-> [i \in 1..Len(names) |->
                   IF names[i] \in DOMAIN v.v THEN v.v[names[i]] ELSE Missing]]
  ELSE IF v.t = "arr" /\ Len(v.v) = Len(names) THEN [ok |-> TRUE, f |-> v.v]
  ELSE [ok |-> FALSE, f |-> <<>>]

IsString(v) == v.t = "str"
\* u32: a number that is not negative (the numbers of RawSamples are all
\* far below 2^32).
IsU32(v) == v.t = "num" /\ v.v >= 0
\* Option<T>: absent or null is None.
IsNone(v) == v.t \in {"missing", "null"}

IsPosition(v) ==
  LET s == StructOf(v, <<"line", "character">>)
  IN  s.ok /\ IsU32(s.f[1]) /\ IsU32(s.f[2])

IsRange(v) ==
  LET s == StructOf(v, <<"start", "end">>)
  IN  s.ok /\ IsPosition(s.f[1]) /\ IsPosition(s.f[2])

\* CompletionItem; of a parsed item the label is kept.
ParseCompletionItem(v) ==
  LET s == StructOf(v, <<"label", "kind", "detail", "documentation", "insert_text">>)
  IN  IF /\ s.ok /\ IsString(s.f[1])
         /\ (IsNone(s.f[2]) \/ IsU32(s.f[2]))
         /\ \A i \in 3..5 : IsNone(s.f[i]) \/ IsString(s.f[i])
      THEN [ok |-> TRUE, val |-> s.f[1].v]
      ELSE [ok |-> FALSE, val |-> ""]

\* Location; of a parsed location the uri is kept.
ParseLocation(v) ==
  LET s == StructOf(v, <<"uri", "range">>)
  IN  IF s.ok /\ IsString(s.f[1]) /\ IsRange(s.f[2])
      THEN [ok |-> TRUE, val |-> s.f[1].v]
      ELSE [ok |-> FALSE, val |-> <<>>]

\* Diagnostic; of a parsed diagnostic the severity is kept (-1: None).
ParseDiagnostic(v) ==
  LET s == StructOf(v, <<"range", "severity", "code", "source", "message">>)
  IN  IF /\ s.ok /\ IsRange(s.f[1])
         /\ (IsNone(s.f[2]) \/ IsU32(s.f[2]))
         /\ (IsNone(s.f[4]) \/ IsString(s.f[4]))
         /\ IsString(s.f[5])
      THEN [ok |-> TRUE, val |-> IF IsNone(s.f[2]) THEN 0 - 1 ELSE s.f[2].v]
      ELSE [ok |-> FALSE, val |-> 0 - 1]

\* Vec<T>: an array all of whose elements parse.
ParseVec(v, T) ==
  LET P(x) == IF T = "CompletionItem" THEN ParseCompletionItem(x)
              ELSE IF T = "Diagnostic" THEN ParseDiagnostic(x)
              ELSE ParseLocation(x)
  IN  IF v.t = "arr" /\ \A i \in 1..Len(v.v) : P(v.v[i]).ok
      THEN [ok |-> TRUE, val |-> [i \in 1..Len(v.v) |-> P(v.v[i]).val]]
      ELSE [ok |-> FALSE, val |-> <<>>]

\* response.get(key): the field of an object.
JsonGet(v, key) == IF v.t = "obj" /\ key \in DOMAIN v.v THEN v.v[key] ELSE Missing

\* ---------------------------------------- the typed operations of LspClient
OkList(list) == [ok |-> TRUE, err |-> "", val |-> list]
ErrOf(kind) == [ok |-> FALSE, err |-> kind, val |-> <<>>]

\* A get_completion that hands on the failure to parse the items field.
CompletionStrict(r) ==
  IF r.kind # "ok" THEN ErrOf(r.kind)
  ELSE LET v == RawSamples[r.raw] IN
       IF JsonGet(v, "items").t # "missing"
         THEN IF ParseVec(JsonGet(v, "items"), "CompletionItem").ok
                THEN OkList(ParseVec(JsonGet(v, "items"), "CompletionItem").val)
                ELSE ErrOf("parse")
       ELSE OkList(ParseVec(v, "CompletionItem").val)

\* get_completion: send_request(..)?, then the items field if there is one
\* (unwrap_or_default), else the response itself as a list, else nothing.
GetCompletion(r) ==
  IF r.kind # "ok" THEN ErrOf(r.kind)
  ELSE LET v == RawSamples[r.raw] IN
       IF JsonGet(v, "items").t # "missing"
         THEN OkList(ParseVec(JsonGet(v, "items"), "CompletionItem").val)
       ELSE IF ParseVec(v, "CompletionItem").ok
         THEN OkList(ParseVec(v, "CompletionItem").val)
       ELSE OkList(<<>>)

\* A get_diagnostics that uses `?` on send_request as the other two do.
DiagnosticsPropagate(r) ==
  IF r.kind # "ok" THEN ErrOf(r.kind)
  ELSE OkList(ParseVec(JsonGet(RawSamples[r.raw], "diagnostics"), "Diagnostic").val)

\* get_diagnostics: Err(_) => Ok(vec![]); the diagnostics field if there is
\* one (unwrap_or_default), else nothing.
GetDiagnostics(r) ==
  IF r.kind # "ok" THEN OkList(<<>>)
  ELSE LET v == RawSamples[r.raw] IN
       IF JsonGet(v, "diagnostics").t # "missing"
         THEN OkList(ParseVec(JsonGet(v, "diagnostics"), "Diagnostic").val)
       ELSE OkList(<<>>)

\* A go_to_definition that takes only the list shape.
DefinitionListOnly(r) ==
  IF r.kind # "ok" THEN ErrOf(r.kind)
  ELSE OkList(ParseVec(RawSamples[r.raw], "Location").val)

\* go_to_definition: send_request(..)?, then a single Location, else a list
\* of them, else nothing.
GoToDefinition(r) ==
  IF r.kind # "ok" THEN ErrOf(r.kind)
  ELSE LET v == RawSamples[r.raw] IN
       IF ParseLocation(v).ok THEN OkList(<<ParseLocation(v).val>>)
       ELSE IF ParseVec(v, "Location").ok THEN OkList(ParseVec(v, "Location").val)
       ELSE OkList(<<>>)

\* ------------------------------------------------------------ the handlers
\* Err(e) of get_client_for_file: "No LSP server available for {} files."
NoServerPayload(p, e) == Payload(FALSE, "noserver", LanguageOrUnknown(p), e, <<>>, NoCounts)

CountOf(list, x) == Cardinality({i \in 1..Len(list) : list[i] = x})

\* A missing severity read as a hint.
SeverityOrHint(sv) == IF sv = 0 - 1 THEN 4 ELSE sv

\* diag.severity.unwrap_or(1)
EffectiveSeverity(sv) == IF sv = 0 - 1 THEN 1 ELSE sv

\* loc.uri.strip_prefix("file://").unwrap_or(&loc.uri)
StripFilePrefix(u) == IF Len(u) > 0 /\ u[1] = "file://" THEN Tail(u) ELSE u

\* What the handler of `tool` returns, given what get_client_for_file
\* returned (client) and, for the three request tools, send_request (r).
HandlerPayload(tool, p, isfile, client, r) ==
  IF tool = "code_symbols" /\ ~isfile
    THEN Payload(FALSE, "notimpl", "", "", <<>>, NoCounts)
  ELSE IF client # "ok" THEN NoServerPayload(p, client)
  ELSE IF tool = "code_complete"
    THEN LET c == GetCompletion(r) IN
         IF c.ok THEN Payload(TRUE, "completions", "", "", c.val, NoCounts)
         ELSE Payload(FALSE, "failed", "", c.err, <<>>, NoCounts)
  ELSE IF tool = "code_diagnostics"
    THEN LET c == GetDiagnostics(r)
             sev == [i \in 1..Len(c.val) |-> EffectiveSeverity(c.val[i])]
         IN
         IF c.ok
           THEN Payload(TRUE, "diagnostics", "", "", sev,
                        [errors |-> CountOf(sev, 1), warnings |-> CountOf(sev, 2),
                         info |-> CountOf(sev, 3), hints |-> CountOf(sev, 4)])
           ELSE Payload(FALSE, "failed", "", c.err, <<>>, NoCounts)
  ELSE IF tool = "code_definition"
    THEN LET c == GoToDefinition(r) IN
         IF c.ok
           THEN Payload(TRUE, "definitions", "", "",
                        [i \in 1..Len(c.val) |-> StripFilePrefix(c.val[i])], NoCounts)
           ELSE Payload(FALSE, "failed", "", c.err, <<>>, NoCounts)
  ELSE Payload(FALSE, "notimpl", "", "", <<>>, NoCounts)

\* The handler up to the return of get_client_for_file (code_symbols calls it
\* only for a file scope on a regular file).  The calls of a run follow one
\* another, so lookup, creation and insert are one step.
ToolLookup(tool, p, isfile, spawned) ==
  /\ tstage \in {"idle", "done"}
  /\ ncalls < MaxCalls
  /\ (isfile = FALSE) \/ tool = "code_symbols"
  /\ ttool' = tool /\ tpath' = p /\ tisfile' = isfile
  /\ tresp' = NoResponse /\ tpayload' = NoPayload
  /\ LET looks == tool # "code_symbols" \/ isfile
         k == ConfigForFile(p)
         l == DefaultConfigs[k].language
     IN
     IF ~looks
       THEN spawned /\ tclient' = "none" /\ tstage' = "ret" /\ UNCHANGED << clients, nsess >>
     ELSE IF k = 0
       THEN spawned /\ tclient' = "noserver" /\ tstage' = "ret" /\ UNCHANGED << clients, nsess >>
     ELSE IF CacheGet(l) # 0
       THEN /\ spawned /\ tclient' = "ok" /\ UNCHANGED << clients, nsess >>
            /\ tstage' = IF tool \in RequestTools THEN "call" ELSE "ret"
     ELSE IF spawned
       THEN /\ nsess' = nsess + 1
            /\ clients' = [clients EXCEPT ![l] = nsess + 1]
            /\ tclient' = "ok"
            /\ tstage' = IF tool \in RequestTools THEN "call" ELSE "ret"
     ELSE /\ tclient' = "spawnfail" /\ tstage' = "ret"
          /\ clients' = CacheAfterSpawnError(l)
          /\ UNCHANGED nsess
  /\ UNCHANGED << ncalls, raced, slang >>
  /\ UNCHANGED << callerVars, sessVars, fsVars >>

\* The typed operation's send_request returns.
ToolCall(r) ==
  /\ tstage = "call"
  /\ tresp' = r
  /\ tstage' = "ret"
  /\ UNCHANGED << ncalls, ttool, tpath, tisfile, tclient, tpayload >>
  /\ UNCHANGED << mgrVars, callerVars, sessVars, fsVars >>

\* The handler returns its payload.
ToolReturn ==
  /\ tstage = "ret"
  /\ tpayload' = HandlerPayload(ttool, tpath, tisfile, tclient, tresp)
  /\ tstage' = "done"
  /\ ncalls' = ncalls + 1
  /\ UNCHANGED << ttool, tpath, tisfile, tclient, tresp >>
  /\ UNCHANGED << mgrVars, callerVars, sessVars, fsVars >>

ToolNext ==
  \/ \E tool \in Tools, p \in ToolPaths, isfile \in BOOLEAN, spawned \in BOOLEAN :
       ToolLookup(tool, p, isfile, spawned)
  \/ \E r \in SendResults : ToolCall(r)
  \/ ToolReturn

ToolSpec == Init /\ [][ToolNext]_vars

\* ================================================== the file system tools
\* file_system_handlers.rs: handle_file_create(_with_approval),
\* handle_file_edit, apply_edit_instructions, should_ask_for_approval.
\* Paths are relative to cwd; a text is a sequence of tokens, "\n" the line
\* break, any other token a word.

AskForApproval == {"Never", "OnFailure", "OnRequest", "UnlessTrusted"}

TrustedExtensions == <<"txt", "md", "json", "yaml", "yml", "toml">>

\* path.ends_with(".ext")
EndsWithDot(p, ext) == Len(p) >= 2 /\ p[Len(p) - 1] = "." /\ p[Len(p)] = ext

\* An approval check that takes the extension from Path::extension.
AskByPathExtension(policy, p) ==
  IF policy = "OnRequest" THEN TRUE
  ELSE IF policy = "UnlessTrusted"
    THEN ~(PathExtension(p).some /\ SeqContains(TrustedExtensions, PathExtension(p).ext))
  ELSE FALSE

\* should_ask_for_approval
ShouldAskForApproval(policy, p) ==
  IF policy = "Never" THEN FALSE
  ELSE IF policy = "OnFailure" THEN FALSE
  ELSE IF policy = "OnRequest" THEN TRUE
  ELSE ~(\E i \in 1..Len(TrustedExtensions) : EndsWithDot(p, TrustedExtensions[i]))

\* A check that never finds the target.
PathNeverExists(fs, p) == FALSE

\* target_path.exists(): false too when a component on the way is a file.
PathExists(fs, p) == fs[p].kind # "absent"

\* target_path.parent() exists (cwd itself does).
ParentExists(fs, p) == \A a \in Ancestors(p) : fs[a].kind # "absent"

\* fs::create_dir_all(parent) and fs::write can do their work: every
\* component on the way is, or can be made, a directory.
ParentsCanBeDirs(fs, p) == \A a \in Ancestors(p) : fs[a].kind # "file"

WithParents(fs, p) == [n \in FsNodes |-> IF n \in Ancestors(p) THEN Dir ELSE fs[n]]

\* handle_file_create_with_approval: the return value and the disk it leaves.
\* content is <<>> (None) or <<text>>; io is whether fs::write succeeds (a
\* write that fails leaves no file).
HandleFileCreate(fs, p, content, policy, io) ==
  IF ShouldAskForApproval(policy, p)
    THEN [r |-> FsReturn("payload", FALSE, "approval"), disk |-> fs]
  ELSE IF PathExists(fs, p)
    THEN [r |-> FsReturn("payload", FALSE, "exists"), disk |-> fs]
  ELSE IF ~ParentExists(fs, p) /\ ~ParentsCanBeDirs(fs, p)
    THEN [r |-> FsReturn("err", FALSE, "mkdir"), disk |-> fs]
  ELSE LET made == IF ParentExists(fs, p) THEN fs ELSE WithParents(fs, p)
           text == IF content = <<>> THEN <<>> ELSE content[1]
       IN
       IF ~io \/ ~ParentsCanBeDirs(fs, p)
         THEN [r |-> FsReturn("err", FALSE, "write"), disk |-> made]
         ELSE [r |-> FsReturn("payload", TRUE, "created"),
               disk |-> [made EXCEPT ![p] = File(text)]]

\* ---------------------------------------------------------------- texts
IndexOfBreak(s) ==
  LET hits == {i \in 1..Len(s) : s[i] = "\n"}
  IN  IF hits = {} THEN 0 ELSE CHOOSE i \in hits : \A j \in hits : i <= j

RECURSIVE SplitLines(_)
\* str::lines(): the pieces between line breaks, without a last empty one.
SplitLines(s) ==
  IF s = <<>> THEN <<>>
  ELSE IF IndexOfBreak(s) = 0 THEN <<s>>
  ELSE <<SubSeq(s, 1, IndexOfBreak(s) - 1)>>
         \o SplitLines(SubSeq(s, IndexOfBreak(s) + 1, Len(s)))

RECURSIVE JoinLines(_)
\* lines.join("\n")
JoinLines(ls) ==
  IF ls = <<>> THEN <<>>
  ELSE IF Len(ls) = 1 THEN ls[1]
  ELSE ls[1] \o <<"\n">> \o JoinLines(Tail(ls))

\* str::contains and str::replace for a one-word pattern.
Contains(s, w) == \E i \in 1..Len(s) : s[i] = w
Replace(s, w, by) == [i \in 1..Len(s) |-> IF s[i] = w THEN by ELSE s[i]]

InsertAt(ls, i, l) == SubSeq(ls, 1, i) \o <<l>> \o SubSeq(ls, i + 1, Len(ls))
Drain(ls, from, to) == SubSeq(ls, 1, from) \o SubSeq(ls, to + 1, Len(ls))
FirstWith(ls, w) ==
  LET hits == {i \in 1..Len(ls) : Contains(ls[i], w)}
  IN  IF hits = {} THEN 0 ELSE CHOOSE i \in hits : \A j \in hits : i <= j

\* ---------------------------------------------------------- instructions
\* An instruction string, as apply_edit_instructions sees it: the keywords
\* its lower-case form contains and what each extract_* function returns
\* for it (<<>>: None).
Instruction(words, import, fr, add, repl, del, after, before) ==
  [words |-> words, import |-> import, fr |-> fr, add |-> add, repl |-> repl,
   del |-> del, after |-> after, before |-> before]

Instructions ==
  << \* replace "a" with "x"
     Instruction({"replace", "with"}, <<>>, <<"a", "x">>, <<>>, <<<<"x">>>>, <<>>, <<>>, <<>>),
     \* replace "z" with "x"
     Instruction({"replace", "with"}, <<>>, <<"z", "x">>, <<>>, <<<<"x">>>>, <<>>, <<>>, <<>>),
     \* replace "a" with "a"
     Instruction({"replace", "with"}, <<>>, <<"a", "a">>, <<>>, <<<<"a">>>>, <<>>, <<>>, <<>>),
     \* replace with: "x\ny"
     Instruction({"replace", "with"}, <<>>, <<>>, <<>>, <<<<"x", "\n", "y">>>>, <<>>, <<>>, <<>>),
     \* add import "i"
     Instruction({"add", "import"}, <<"i">>, <<>>, <<"import \"i">>, <<>>, <<>>, <<>>, <<>>),
     \* add: "x"
     Instruction({"add"}, <<>>, <<>>, <<"x">>, <<>>, <<>>, <<>>, <<>>),
     \* add "x" after "a"
     Instruction({"add", "after"}, <<>>, <<>>, <<"x\" after \"a">>, <<>>, <<>>, <<"a", "x">>, <<>>),
     \* add "x" before "b"
     Instruction({"add", "before"}, <<>>, <<>>, <<"x\" before \"b">>, <<>>, <<>>, <<>>, <<"b", "x">>),
     \* delete "b"
     Instruction({"delete"}, <<>>, <<>>, <<>>, <<>>, <<"b">>, <<>>, <<>>),
     \* delete
     Instruction({"delete"}, <<>>, <<>>, <<>>, <<>>, <<>>, <<>>, <<>>),
     \* tidy up
     Instruction({}, <<>>, <<>>, <<>>, <<>>, <<>>, <<>>, <<>>) >>

\* target_lines: None, or Some([start, end]).
TargetLines == { <<>>, <<1, 1>>, <<2, 3>>, <<2, 1>>, <<0, 1>>, <<9, 9>> }

Edited(ls, changed) == [content |-> JoinLines(ls), changed |-> changed, panic |-> FALSE]

\* apply_edit_instructions: (new_content, changes_made).  With start = 0 the
\* subtraction start - 1 overflows: a panic in a build that checks overflow,
\* otherwise an index beyond every line.
ApplyEditInstructions(content, ins, target, checked) ==
  LET lines == SplitLines(content)
      n == Len(lines)
  IN
  IF target # <<>>
    THEN LET start_idx == target[1] - 1
             end_idx == IF target[2] < n THEN target[2] ELSE n
         IN
         IF target[1] = 0
           THEN [content |-> JoinLines(lines), changed |-> FALSE, panic |-> checked]
         ELSE IF start_idx >= n THEN Edited(lines, FALSE)
         ELSE IF "replace" \in ins.words
           THEN IF ins.repl = <<>> THEN Edited(lines, FALSE)
                ELSE LET kept == IF start_idx < end_idx
                                 THEN Drain(lines, start_idx, end_idx) ELSE lines
                     IN  Edited(SubSeq(kept, 1, start_idx) \o SplitLines(ins.repl[1])
                                  \o SubSeq(kept, start_idx + 1, Len(kept)), TRUE)
         ELSE IF "add" \in ins.words
           THEN IF ins.add = <<>> THEN Edited(lines, FALSE)
                ELSE Edited(InsertAt(lines, start_idx, <<ins.add[1]>>), TRUE)
         ELSE IF "delete" \in ins.words \/ "remove" \in ins.words
           THEN IF start_idx < end_idx
                THEN Edited(Drain(lines, start_idx, end_idx), TRUE)
                ELSE Edited(lines, FALSE)
         ELSE Edited(lines, FALSE)
  ELSE IF "add" \in ins.words /\ "import" \in ins.words
    THEN IF ins.import # <<>> /\ ~Contains(content, ins.import[1])
         THEN Edited(<< <<ins.import[1]>> >> \o lines, TRUE)
         ELSE Edited(lines, FALSE)
  ELSE IF "replace" \in ins.words /\ "with" \in ins.words
    THEN IF ins.fr = <<>> THEN Edited(lines, FALSE)
         ELSE LET new == [i \in 1..n |-> Replace(lines[i], ins.fr[1], ins.fr[2])]
              IN  Edited(new, \E i \in 1..n : new[i] # lines[i])
  ELSE IF "delete" \in ins.words \/ "remove" \in ins.words
    THEN IF ins.del = <<>> THEN Edited(lines, FALSE)
         ELSE LET keep == {i \in 1..n : ~Contains(lines[i], ins.del[1])}
                  rank(i) == Cardinality({j \in keep : j <= i})
              IN  Edited([k \in 1..Cardinality(keep) |->
                            lines[CHOOSE i \in keep : rank(i) = k]],
                         keep # 1..n)
  ELSE IF "after" \in ins.words /\ "add" \in ins.words
    THEN IF ins.after = <<>> \/ FirstWith(lines, ins.after[1]) = 0 THEN Edited(lines, FALSE)
         ELSE Edited(InsertAt(lines, FirstWith(lines, ins.after[1]), <<ins.after[2]>>), TRUE)
  ELSE IF "before" \in ins.words /\ "add" \in ins.words
    THEN IF ins.before = <<>> \/ FirstWith(lines, ins.before[1]) = 0 THEN Edited(lines, FALSE)
         ELSE Edited(InsertAt(lines, FirstWith(lines, ins.before[1]) - 1, <<ins.before[2]>>), TRUE)
  ELSE Edited(lines, FALSE)

\* An edit that writes what it computed before it looks at changes_made.
DiskWrittenFirst(fs, p, new) == [fs EXCEPT ![p] = File(new)]

\* The disk handle_file_edit leaves when changes_made is false: it returns
\* before fs::write.
DiskAfterNoChange(fs, p, new) == fs

\* handle_file_edit: the return value and the disk it leaves.  io is whether
\* fs::write succeeds (a write that fails leaves the file as it was); after
\* a write that succeeded the file reads back as written.
HandleFileEdit(fs, p, ins, target, checked, io) ==
  IF ~PathExists(fs, p)
    THEN [r |-> FsReturn("payload", FALSE, "missing"), disk |-> fs]
  ELSE IF fs[p].kind # "file"
    THEN [r |-> FsReturn("payload", FALSE, "notfile"), disk |-> fs]
  ELSE LET e == ApplyEditInstructions(fs[p].content, ins, target, checked) IN
       IF e.panic THEN [r |-> FsReturn("panic", FALSE, "overflow"), disk |-> fs]
       ELSE IF ~e.changed
         THEN [r |-> FsReturn("payload", FALSE, "nochange"),
               disk |-> DiskAfterNoChange(fs, p, e.content)]
       ELSE IF ~io
         THEN [r |-> FsReturn("payload", FALSE, "writeerror"), disk |-> fs]
       ELSE LET written == [fs EXCEPT ![p] = File(e.content)] IN
            IF written[p].content # e.content
              THEN [r |-> FsReturn("payload", FALSE, "verification"), disk |-> written]
              ELSE [r |-> FsReturn("payload", TRUE, "edited"), disk |-> written]

\* One call of handle_file_create_with_approval (handle_file_create is the
\* call with the policy Never).
FileCreate(p, content, policy, io) ==
  /\ fsOps < MaxFsOps
  /\ fsOps' = fsOps + 1
  /\ disk' = HandleFileCreate(disk, p, content, policy, io).disk
  /\ fsCall' = FsCall("create", p, policy)
  /\ fsResult' = HandleFileCreate(disk, p, content, policy, io).r
  /\ UNCHANGED << mgrVars, callerVars, sessVars, toolVars >>

\* One call of handle_file_edit.
FileEdit(p, i, target, checked, io) ==
  /\ fsOps < MaxFsOps
  /\ fsOps' = fsOps + 1
  /\ disk' = HandleFileEdit(disk, p, Instructions[i], target, checked, io).disk
  /\ fsCall' = FsCall("edit", p, "Never")
  /\ fsResult' = HandleFileEdit(disk, p, Instructions[i], target, checked, io).r
  /\ UNCHANGED << mgrVars, callerVars, sessVars, toolVars >>

Contents == { <<>>, << <<>> >>, << <<"x", "\n", "y">> >> }

FsNext ==
  \/ \E p \in FsPaths, content \in Contents, policy \in AskForApproval, io \in BOOLEAN :
       FileCreate(p, content, policy, io)
  \/ \E p \in FsPaths, i \in 1..Len(Instructions), target \in TargetLines,
        checked \in BOOLEAN, io \in BOOLEAN :
       FileEdit(p, i, target, checked, io)

FsSpec == Init /\ [][FsNext]_vars

\* ================================================================ claims
HandshakePcs == {"init_write", "init_read", "init_notify"}
LoopPcs == {"recv", "write"}

\* The child of session s and its communication task both exist.
SessionLive(s) == tpc[s] \in HandshakePcs \cup LoopPcs

SessionsOf(l) == {s \in Sessions : s <= nsess /\ slang[s] = l}

HoldsHandle(c) == chandle[c] # 0 /\ cpc[c] \in {"have", "waiting", "done"}

\* C1: at any time at most one language-server session (child process and
\* communication task) exists for each language, whatever the interleaving
\* of the get_client_for_file calls.
C1_AtMostOneSessionPerLanguage ==
  \A l \in Languages : Cardinality({s \in SessionsOf(l) : SessionLive(s)}) <= 1

\* C2: when the handshake of a newly spawned server has failed, no handle
\* of that session is in the manager's cache and no caller was handed one.
C2_FailedHandshakeNeverCached ==
  \A s \in Sessions :
    tpc[s] = "failed" =>
      /\ \A l \in Languages : clients[l] # s
      /\ \A c \in Callers : ~(HoldsHandle(c) /\ chandle[c] = s)

\* C3: on every session a user request is on the wire only after the
\* initialize request and then the initialized notification; while the
\* handshake runs no slot is registered and every request submitted so far
\* is still in the queue.
C3_HandshakeBeforeRequests ==
  \A s \in Sessions :
    /\ \A i \in 1..Len(wire[s]) :
         wire[s][i].kind = "request" =>
           \E j \in 1..Len(wire[s]), k \in 1..Len(wire[s]) :
             /\ j < k /\ k < i
             /\ wire[s][j].kind = "initialize"
             /\ wire[s][k].kind = "initialized"
    /\ tpc[s] \in HandshakePcs =>
         /\ pending[s] = {}
         /\ \A c \in Callers :
              (chandle[c] = s /\ cpc[c] = "waiting") => SeqContains(queue[s], c)

\* A request was submitted while the handshake is still under way: it waits
\* in the queue and only initialize is on the wire.
C3_Witness ==
  \E s \in Sessions, c \in Callers :
    /\ tpc[s] = "init_notify"
    /\ SeqContains(queue[s], c) /\ cpc[c] = "waiting"
    /\ Len(wire[s]) = 1 /\ wire[s][1].kind = "initialize"

\* C4: a caller that is resolved by a server response (a result or a
\* server-reported error) receives the payload of the response that carries
\* the id assigned to its own request, whatever the order of arrival.
C4_ResolvedByOwnId ==
  \A c \in Callers :
    outcome[c].kind \in {"ok", "servererr"} =>
      cid[c] # 0 /\ outcome[c].val = cid[c]

\* Two requests of one session are in flight and the response to the later
\* one has arrived first: the later caller holds its own result while the
\* earlier request, written before it, still has its slot registered.
C4_Witness ==
  \E c \in Callers, d \in Callers :
    /\ chandle[c] = chandle[d] /\ chandle[c] # 0
    /\ cid[c] # 0 /\ cid[c] < cid[d]
    /\ outcome[d] = Out("ok", cid[d])
    /\ cpc[c] = "waiting" /\ <<cid[c], c>> \in pending[chandle[c]]
    /\ \E i \in 1..Len(wire[chandle[c]]) :
         wire[chandle[c]][i] = WireMsg("request", cid[c])

\* C5: when the reader handles a message whose id matches the slot of an
\* awaiting caller, the caller is resolved with a server error if the
\* message has an error field (also when it has a result field too), else
\* with the result if it has a result field, else with an invalid-response
\* error.
C5_ErrorFieldFirst ==
  [][ \A s \in Sessions, m \in Lines :
        (pending'[s] # pending[s] /\ ReaderHandle(s, m)) =>
          \A c \in Callers :
            (m.line = "json" /\ <<m.id, c>> \in pending[s] /\ cpc[c] = "waiting") =>
              /\ m.err => outcome'[c] = Out("servererr", m.id)
              /\ (~m.err /\ m.res) => outcome'[c] = Out("ok", m.id)
              /\ (~m.err /\ ~m.res) => outcome'[c] = Out("invalid", 0)
    ]_vars

\* A caller was resolved with a server-reported error.
C5_Witness ==
  \E c \in Callers : outcome[c] = Out("servererr", cid[c]) /\ cid[c] # 0

\* C6: a request submitted through send_request after the server's output
\* has reached end-of-file (and the reader has met it) fails with the
\* session-closed error.
C6_ClosedAfterEof ==
  [][ \A c \in Callers :
        (SendRequest(c) /\ eof[chandle[c]] /\ reader[chandle[c]] = "ended")
          => outcome'[c] = Out("closed", 0)
    ]_vars

ClosedSeen(s) == \E c \in Callers : chandle[c] = s /\ outcome[c].kind = "closed"

\* C7: once a send_request on a session has failed with "LSP client is
\* closed", every later send_request on a handle of that session fails at
\* once with the same error, nothing more is written to the server and the
\* session's task, channel and reader do not change again.
C7_ClosedIsAbsorbing ==
  [][ \A s \in Sessions :
        ClosedSeen(s) =>
          /\ wire'[s] = wire[s]
          /\ tpc'[s] = tpc[s] /\ rxAlive'[s] = rxAlive[s] /\ reader'[s] = reader[s]
          /\ queue'[s] = queue[s] /\ pending'[s] = pending[s]
          /\ \A c \in Callers :
               (chandle[c] = s /\ cpc[c] = "have" /\ cpc'[c] # "have")
                 => (cpc'[c] = "done" /\ outcome'[c] = Out("closed", 0))
    ]_vars

\* Two calls on one session have failed with the closed error.
C7_Witness ==
  \E c \in Callers, d \in Callers :
    /\ c # d /\ chandle[c] = chandle[d]
    /\ outcome[c].kind = "closed" /\ outcome[d].kind = "closed"

SlotsOfOthers(s, c) == {e \in pending[s] : e[2] # c}

\* C8: the step in which a caller times out gives it the timeout error and
\* changes nothing else: the session's task, channel, reader, queue and wire
\* and the slots and outcomes of all other callers are as before.
C8_TimeoutIsLocal ==
  [][ \A c \in Callers :
        (outcome[c].kind = "none" /\ outcome'[c].kind = "timeout") =>
          /\ cpc[c] = "waiting" /\ cpc'[c] = "done"
          /\ tpc' = tpc /\ rxAlive' = rxAlive /\ reader' = reader
          /\ queue' = queue /\ wire' = wire /\ request_id' = request_id
          /\ \A s \in Sessions :
               {e \in pending'[s] : e[2] # c} = SlotsOfOthers(s, c)
          /\ \A d \in Callers \ {c} : outcome'[d] = outcome[d] /\ cpc'[d] = cpc[d]
    ]_vars

\* A request got no response and its caller timed out (its slot is still
\* registered); a request dequeued after it on the same session was written
\* and resolved with its own result.
C8_Witness ==
  \E c \in Callers, d \in Callers :
    /\ chandle[c] = chandle[d] /\ chandle[c] # 0
    /\ outcome[c].kind = "timeout" /\ <<cid[c], c>> \in pending[chandle[c]]
    /\ cid[c] < cid[d]
    /\ outcome[d] = Out("ok", cid[d])

ReturnKinds == {"ok", "closed", "timeout", "cancelled", "sendfail", "servererr", "invalid"}

\* C9: every send_request that awaits its response eventually returns, with
\* one of the outcomes of send_request, and an outcome once returned never
\* changes.
C9_SendRequestReturns ==
  /\ \A c \in Callers :
       (cpc[c] = "waiting") ~> (cpc[c] = "done" /\ outcome[c].kind \in ReturnKinds)
  /\ [][ \A c \in Callers : outcome[c].kind # "none" => outcome'[c] = outcome[c] ]_vars

\* A request submitted to a session whose server never completes the
\* handshake has returned with the timeout error.
C9_Witness ==
  \E c \in Callers :
    /\ outcome[c].kind = "timeout"
    /\ tpc[chandle[c]] = "init_read"
    /\ SeqContains(queue[chandle[c]], c)

\* C10: get_client_for_file calls for one language that do not overlap in
\* their creation path (sequential calls) all return handles of the same
\* session, and only one process is spawned for the language.
C10_SequentialCallsShareSession ==
  \A l \in Languages :
    l \notin raced =>
      /\ Cardinality(SessionsOf(l)) <= 1
      /\ \A c \in Callers, d \in Callers :
           (HoldsHandle(c) /\ HoldsHandle(d)
              /\ LanguageOf(cext[c]) = l /\ LanguageOf(cext[d]) = l)
             => chandle[c] = chandle[d]

\* Two calls for one language, one after the other, hold handles of the one
\* session that was spawned.
C10_Witness ==
  \E c \in Callers, d \in Callers :
    /\ c # d /\ HoldsHandle(c) /\ HoldsHandle(d)
    /\ LanguageOf(cext[c]) = LanguageOf(cext[d])
    /\ LanguageOf(cext[c]) \notin raced
    /\ chandle[c] = chandle[d]
    /\ nsess = 1

\* C11: when the spawn of the language server fails, get_client_for_file
\* returns the error and leaves the cache and the set of sessions as they
\* were; a call for that language made after the failure, finding no entry,
\* goes on to spawn again.
C11_SpawnFailureNotCached ==
  [][ \A c \in Callers :
        /\ (cpc[c] = "creating" /\ cpc'[c] = "done") =>
             /\ outcome'[c] = Out("spawnfail", 0)
             /\ clients' = clients /\ nsess' = nsess /\ tpc' = tpc
        /\ \A d \in Callers \ {c} :
             (/\ outcome[c].kind = "spawnfail"
              /\ cpc[d] = "idle" /\ cpc'[d] # "idle"
              /\ FindConfig(cext'[d]) # 0
              /\ LanguageOf(cext'[d]) = LanguageOf(cext[c])
              /\ clients[LanguageOf(cext[c])] = 0)
               => cpc'[d] = "creating"
    ]_vars

\* One call has returned the spawn error, nothing is cached for its language
\* and another call for the same language is on its way to spawn.
C11_Witness ==
  \E c \in Callers, d \in Callers :
    /\ outcome[c].kind = "spawnfail" /\ cpc[d] = "creating"
    /\ LanguageOf(cext[d]) = LanguageOf(cext[c])
    /\ clients[LanguageOf(cext[c])] = 0 /\ nsess = 0

\* ------------------------------------------------- claims on the handlers
SupportedExts == {"rs", "ts", "tsx", "js", "jsx", "py", "pyi", "go", "java"}

\* The last component of p is a non-empty stem, a dot and the extension e.
HasExt(p, e) ==
  /\ Len(p) >= 3
  /\ p[Len(p)] = e /\ p[Len(p) - 1] = "." /\ p[Len(p) - 2] \notin {"/", "."}

Supported(p) == \E e \in SupportedExts : HasExt(p, e)

ConfigsWith(e) == {i \in 1..Len(DefaultConfigs) : SeqContains(DefaultConfigs[i].exts, e)}

\* The handlers that look up a client whatever their arguments.
ClientTools == Tools \ {"code_symbols"}

\* A handler has called get_client_for_file for tpath.
LookedUp == tstage # "idle" /\ (ttool \in ClientTools \/ tisfile)

\* C12: a file is resolved to the language of the first configuration, in
\* catalog order, whose extension list holds the file's extension; each of
\* rs, ts, tsx, js, jsx, py, pyi, go, java belongs to exactly one language;
\* a path with an unconfigured or no extension resolves to not-found.
C12_ResolveFirstMatch ==
  /\ \A e \in SupportedExts : Cardinality(ConfigsWith(e)) = 1
  /\ LookedUp =>
       /\ \A e \in SupportedExts :
            HasExt(tpath, e) =>
              LET first == CHOOSE i \in ConfigsWith(e) : \A j \in ConfigsWith(e) : i <= j
                  l == DefaultConfigs[first].language
              IN  /\ tclient \in {"ok", "spawnfail"}
                  /\ tclient = "ok" => clients[l] # 0
                  /\ tpayload.what = "noserver" => tpayload.lang = l
       /\ ~Supported(tpath) =>
            /\ tclient = "noserver"
            /\ tstage = "done" => tpayload.lang = "unknown"

\* A .tsx file was resolved to typescript, the second configuration, and a
\* typescript session is cached.
C12_Witness ==
  /\ tstage = "done" /\ tpath = <<"a", ".", "tsx">>
  /\ tclient = "ok" /\ clients["typescript"] # 0 /\ nsess = 1

\* C13: for a file whose extension matches no configuration each of the
\* handlers complete, diagnostics, definition, references and hover returns
\* a payload with success=false, sends no request, spawns no process and
\* leaves the cache as it was.
C13_UnsupportedFileTouchesNothing ==
  [][ (ttool' \in ClientTools /\ ~Supported(tpath') /\ tstage' # "idle") =>
        /\ clients' = clients /\ nsess' = nsess
        /\ tstage' # "call" /\ tresp' = NoResponse
        /\ tstage' = "done" =>
             (~tpayload'.success /\ tpayload'.what = "noserver" /\ tpayload'.err = "noserver")
    ]_vars

\* With a session already cached, hover on a .xyz file has returned the
\* no-server failure.
C13_Witness ==
  /\ tstage = "done" /\ ttool = "code_hover" /\ tpath = <<"a", ".", "xyz">>
  /\ ~tpayload.success /\ tpayload.what = "noserver"
  /\ nsess = 1

\* A completion call got a raw result from the server and has returned.
CompletionGot(i) ==
  /\ tstage = "done" /\ ttool = "code_complete" /\ tclient = "ok"
  /\ tresp.kind = "ok" /\ tresp.raw = i

\* C14: get_completion maps a raw result with an items field to that field
\* parsed as an item list, or to the empty list when it does not parse; a
\* raw result without one to itself parsed as an item list, or else to the
\* empty list; never to an error.  {"items":[{"label":"bar"}]} gives the one
\* item bar.
C14_CompletionMapping ==
  /\ \A i \in 1..Len(RawSamples) :
       CompletionGot(i) =>
         LET v == RawSamples[i]
             hasItems == v.t = "obj" /\ "items" \in DOMAIN v.v
             src == IF hasItems THEN v.v["items"] ELSE v
             parses == src.t = "arr" /\ \A k \in 1..Len(src.v) : ParseCompletionItem(src.v[k]).ok
         IN  /\ tpayload.success /\ tpayload.what = "completions"
             /\ parses => /\ Len(tpayload.list) = Len(src.v)
                          /\ \A k \in 1..Len(src.v) :
                               tpayload.list[k] = ParseCompletionItem(src.v[k]).val
             /\ ~parses => tpayload.list = <<>>
  /\ CompletionGot(3) => tpayload.list = <<"bar">>
  /\ CompletionGot(4) => tpayload.list = <<"foo", "bar">>
  /\ CompletionGot(8) => tpayload.list = <<"bar", "foo">>
  /\ \A i \in {1, 2, 5, 6, 7, 10, 11, 12} : CompletionGot(i) => tpayload.list = <<>>

\* The server answered {"items":[{"label":"bar"}]} and the call returned the
\* one completion bar.
C14_Witness == CompletionGot(3) /\ tpayload.success /\ tpayload.list = <<"bar">>

\* A diagnostics call on a client has returned.
DiagnosticsDone == tstage = "done" /\ ttool = "code_diagnostics" /\ tclient = "ok"

\* C15: get_diagnostics never returns an error: when the request fails
\* (closed, timeout, cancelled, send failure, server error, invalid
\* response) or the response has no diagnostics field it returns the empty
\* list, and handle_code_diagnostics reports success=true with all counts 0.
C15_DiagnosticsNeverFail ==
  DiagnosticsDone =>
    /\ tpayload.success /\ tpayload.what = "diagnostics"
    /\ (\/ tresp.kind \in SendErrors
        \/ /\ tresp.kind = "ok"
           /\ ~(RawSamples[tresp.raw].t = "obj"
                /\ "diagnostics" \in DOMAIN RawSamples[tresp.raw].v))
         => (tpayload.list = <<>> /\ tpayload.counts = NoCounts)

\* The diagnostics request timed out and the handler reported success with
\* an empty list.
C15_Witness ==
  DiagnosticsDone /\ tresp.kind = "timeout" /\ tpayload.success /\ tpayload.list = <<>>

\* A definition call got a raw result from the server and has returned.
DefinitionGot(i) ==
  /\ tstage = "done" /\ ttool = "code_definition" /\ tclient = "ok"
  /\ tresp.kind = "ok" /\ tresp.raw = i

C17_OnlyConnectivityFails ==
  (tstage = "done" /\ ttool \in RequestTools /\ ~tpayload.success) =>
    (tclient \in {"noserver", "spawnfail"} \/ tresp.kind \in {"closed", "cancelled"})

\* ------------------------------------------------- claims on the file tools

\* C18: handle_file_create (the policy Never) on a path that exists returns
\* success=false with the already-exists message and leaves the disk as it
\* was; on a path that does not exist, when the write goes through, it
\* returns success=true and the path is a file with exactly the given
\* content (empty when none is given), every directory on the way to it
\* exists, and nothing else on the disk has changed.
C18_CreateKeepsOrMakes ==
  [][\A p \in {fsCall'.path} \cap FsPaths, content \in Contents, io \in BOOLEAN :
       (fsCall'.op = "create" /\ FileCreate(p, content, "Never", io)) =>
         IF disk[p].kind # "absent"
           THEN /\ fsResult' = FsReturn("payload", FALSE, "exists")
                /\ disk' = disk
           ELSE /\ (io /\ \A a \in Ancestors(p) : disk[a].kind # "file")
                     => fsResult'.success
                /\ fsResult'.success =>
                     /\ fsResult'.ret = "payload"
                     /\ disk'[p] = File(IF content = <<>> THEN <<>> ELSE content[1])
                     /\ \A a \in Ancestors(p) : disk'[a] = Dir
                     /\ \A n \in FsNodes \ ({p} \cup Ancestors(p)) : disk'[n] = disk[n]
    ]_vars

\* A create below a directory that was missing succeeded, and a later create
\* of a path that exists was refused.
C18_Witness ==
  /\ fsCall = FsCall("create", <<"a", ".", "txt">>, "Never")
  /\ fsResult = FsReturn("payload", FALSE, "exists")
  /\ disk[<<"a", ".", "txt">>] = File(<<"a", "\n", "b", "\n">>)
  /\ disk[<<"d", "/", "e">>] = Dir
  /\ disk[<<"d", "/", "e", "/", "c", ".", "rs">>] = File(<<"x", "\n", "y">>)

C20_ApprovalGate ==
  [][(fsCall'.op = "create" /\ fsOps' = fsOps + 1) =>
       LET p == fsCall'.path
           policy == fsCall'.policy
           trusted == /\ Len(p) >= 2 /\ p[Len(p) - 1] = "."
                      /\ p[Len(p)] \in {"txt", "md", "json", "yaml", "yml", "toml"}
           asks == policy = "OnRequest" \/ (policy = "UnlessTrusted" /\ ~trusted)
       IN  /\ ShouldAskForApproval(policy, p) = asks
           /\ asks => /\ fsResult' = FsReturn("payload", FALSE, "approval")
                       /\ disk' = disk
           /\ ~asks => fsResult'.what # "approval"
    ]_vars

\* Under UnlessTrusted a create of d/e/c.rs was held back for approval, with
\* neither the file nor the directory d/e made.
C20_Witness ==
  /\ fsCall = FsCall("create", <<"d", "/", "e", "/", "c", ".", "rs">>, "UnlessTrusted")
  /\ fsResult = FsReturn("payload", FALSE, "approval")
  /\ disk[<<"d", "/", "e">>] = Absent
  /\ disk[<<"d", "/", "e", "/", "c", ".", "rs">>] = Absent

\* ------------------------------------------- claims on the session's task

InitializedWritten(s) == \E i \in 1..Len(wire[s]) : wire[s][i].kind = "initialized"

\* C21: on every session the initialized notification is on the wire only
\* when the handshake has received the response to the initialize request;
\* a header line, a blank line, the line of another message and end-of-file
\* are not that response.
C21_InitializedAfterResponse ==
  \A s \in Sessions : InitializedWritten(s) => initAck[s]

Resolved(c) == outcome[c].kind \in {"ok", "servererr", "invalid", "sendfail"}

\* C22: each pending request is resolved at most once.  A slot enters the
\* table only when the driver registers it under a new id; a caller that
\* was resolved by the reader or the driver has its slot out of the table and
\* keeps the one outcome it got; a slot that leaves the table leaves it in a
\* step that resolves its caller if the caller still awaits; and a message
\* whose id has no slot (a second response) changes nothing.
C22_ResolvedAtMostOnce ==
  /\ [](\A c \in Callers : Resolved(c) => <<cid[c], c>> \notin pending[chandle[c]])
  /\ [][ /\ \A c \in Callers : outcome[c].kind # "none" => outcome'[c] = outcome[c]
          /\ \A s \in Sessions :
               /\ \A e \in pending'[s] \ pending[s] :
                    /\ e[1] = request_id'[s] /\ request_id'[s] = request_id[s] + 1
                    /\ \A f \in pending[s] : f[1] < e[1]
               /\ \A e \in pending[s] \ pending'[s] :
                    /\ pending[s] \ pending'[s] = {e}
                    /\ cpc[e[2]] = "waiting" => Resolved(e[2])'
                    /\ cpc[e[2]] # "waiting" => outcome' = outcome
               /\ \A m \in Lines :
                    (ReaderLine(s, m) /\ m.line = "json"
                       /\ \A e \in pending[s] : e[1] # m.id)
                      => (pending' = pending /\ outcome' = outcome /\ cpc' = cpc)
        ]_vars

\* The response to the caller's request (id 2) came twice: the caller holds
\* an outcome, its slot is gone and the reader still runs.
C22_Witness ==
  /\ rxLog = << <<1, "message", 2>>, <<1, "message", 2>> >>
  /\ \E c \in Callers : cid[c] = 2 /\ chandle[c] = 1 /\ outcome[c].kind = "servererr"
  /\ pending[1] = {} /\ reader[1] = "running"

HasSlot(s, c) == \E e \in pending[s] : e[2] = c

\* C23: while the session is alive (its server has not closed its output
\* and its reader runs) every slot registered in the pending table is
\* eventually removed from it, also the slot of a request whose caller has
\* timed out or whose server never answers.
C23_SlotsEventuallyLeave ==
  \A s \in Sessions, c \in Callers :
    HasSlot(s, c) ~> (~HasSlot(s, c) \/ eof[s] \/ reader[s] # "running")

\* The callers whose request the driver of s has dequeued.
Dequeued(s) == {c \in Callers : chandle[c] = s /\ cid[c] # 0}

Numbered(s) == {i \in 1..Len(wire[s]) : wire[s][i].kind \in {"initialize", "request"}}

\* C24: on every session the ids on the wire are strictly increasing in
\* write order; initialize is the first message and carries id 1; the
\* requests dequeued so far carry the ids 2, 3, .. without a gap or a
\* repetition, whether or not their writes failed; and a request on the
\* wire carries the id given to its caller's request.
C24_IdsIncrease ==
  \A s \in Sessions :
    /\ \A i \in Numbered(s), j \in Numbered(s) : i < j => wire[s][i].id < wire[s][j].id
    /\ \A i \in 1..Len(wire[s]) :
         /\ wire[s][i].kind = "initialize" => (i = 1 /\ wire[s][i].id = 1)
         /\ wire[s][i].kind = "request" => \E c \in Dequeued(s) : cid[c] = wire[s][i].id
    /\ {cid[c] : c \in Dequeued(s)} = 2..(Cardinality(Dequeued(s)) + 1)
    /\ \A c \in Dequeued(s), d \in Dequeued(s) : cid[c] = cid[d] => c = d
    /\ tpc[s] \in LoopPcs => request_id[s] = Cardinality(Dequeued(s)) + 1

\* The write of the first request (id 2) failed; the request dequeued next
\* went out with id 3.
C24_Witness ==
  \E s \in Sessions, c \in Callers, d \in Callers :
    /\ chandle[c] = s /\ chandle[d] = s
    /\ cid[c] = 2 /\ outcome[c].kind = "sendfail"
    /\ cid[d] = 3
    /\ wire[s] = << WireMsg("initialize", 1), WireMsg("initialized", 0), WireMsg("request", 3) >>

\* C25: when the server's output reaches end-of-file while the loops run,
\* the reader loop ends and the driver loop ends too (after it the task drops
\* request_rx, which closes the session, and kills the child).
C25_EofEndsBothLoops ==
  \A s \in Sessions :
    (eof[s] /\ tpc[s] \in LoopPcs)
      ~> (reader[s] = "ended" /\ tpc[s] \notin LoopPcs /\ ~rxAlive[s])

\* C26: in the step in which the write of a request fails (the driver leaves
\* the write with nothing added to the wire) the slot of that request is
\* removed from the table and, if its caller still awaits, the caller is
\* resolved with the send failure; every other slot stays, and the driver
\* is back at the head of its loop with the channel open and the queue as it
\* was, to dequeue the next request.
C26_WriteFailureIsLocal ==
  [][ \A s \in Sessions :
        (tpc[s] = "write" /\ tpc'[s] # "write" /\ wire'[s] = wire[s]) =>
          /\ pending'[s] = {e \in pending[s] : e[1] # request_id[s]}
          /\ \A e \in pending[s] :
               (e[1] = request_id[s] /\ cpc[e[2]] = "waiting") =>
                 (outcome'[e[2]] = Out("sendfail", 0) /\ cpc'[e[2]] = "done")
          /\ tpc'[s] = "recv" /\ rxAlive'[s] /\ queue'[s] = queue[s]
          /\ request_id'[s] = request_id[s]
    ]_vars

\* The write of one caller's request failed and the caller got the send
\* failure; the driver went on, and the request dequeued after it was
\* written and answered.
C26_Witness ==
  \E c \in Callers, d \in Callers :
    /\ chandle[c] = chandle[d] /\ chandle[c] # 0
    /\ outcome[c] = Out("sendfail", 0) /\ cid[c] # 0 /\ cid[c] < cid[d]
    /\ outcome[d] = Out("ok", cid[d])
    /\ \E i \in 1..Len(wire[chandle[d]]) : wire[chandle[d]][i] = WireMsg("request", cid[d])

ResolvedKinds == {"ok", "servererr", "invalid", "sendfail", "timeout"}

\* C27: a step that resolves one request (its caller's outcome becomes a
\* response, a server error, an invalid response, a send failure or a
\* timeout) or that takes one slot out of the table leaves every slot of
\* every other request in the table, and the outcome and position of its
\* caller as they were.
C27_OtherSlotsUntouched ==
  [][ /\ \A c \in Callers :
           (outcome[c].kind = "none" /\ outcome'[c].kind \in ResolvedKinds) =>
             \A s \in Sessions : \A e \in pending[s] :
               e[2] # c =>
                 /\ e \in pending'[s]
                 /\ outcome'[e[2]] = outcome[e[2]] /\ cpc'[e[2]] = cpc[e[2]]
      /\ \A s \in Sessions : \A e \in pending[s] \ pending'[s] :
           \A t \in Sessions : \A f \in pending[t] :
             f # e =>
               /\ f \in pending'[t]
               /\ outcome'[f[2]] = outcome[f[2]] /\ cpc'[f[2]] = cpc[f[2]]
    ]_vars

\* Two requests of one session are registered; the later one was answered
\* with an invalid response while the earlier still waits with its slot in
\* the table.
C27_Witness ==
  \E c \in Callers, d \in Callers :
    /\ chandle[c] = chandle[d] /\ chandle[c] # 0
    /\ cid[c] # 0 /\ cid[c] < cid[d]
    /\ outcome[d] = Out("invalid", 0) /\ <<cid[d], d>> \notin pending[chandle[d]]
    /\ cpc[c] = "waiting" /\ outcome[c].kind = "none"
    /\ pending[chandle[c]] = {<<cid[c], c>>}

\* The reader has just handled a line, of kind k.
JustRead(k) == Len(rxLog') = Len(rxLog) + 1 /\ rxLog'[Len(rxLog')][2] = k

\* C28: the step in which the reader handles a line that is blank, starts
\* with Content-Length: or is not JSON leaves the pending tables, the
\* callers and the task as they were, and the reader goes on running.
C28_SkippedLinesChangeNothing ==
  [][ \A k \in {"blank", "header", "garbage"} :
        JustRead(k) =>
          /\ pending' = pending /\ outcome' = outcome /\ cpc' = cpc
          /\ tpc' = tpc /\ rxAlive' = rxAlive /\ queue' = queue /\ wire' = wire
          /\ reader'[rxLog'[Len(rxLog')][1]] = "running"
    ]_vars

\* With a request registered the reader met a line that is not JSON and
\* then the response to the request, which resolved the caller.
C28_Witness ==
  /\ rxLog = << <<1, "garbage", 0>>, <<1, "message", 2>> >>
  /\ \E c \in Callers : chandle[c] = 1 /\ outcome[c] = Out("ok", 2)
  /\ reader[1] = "running"

\* C29: the step in which the reader handles a message with a method and no
\* id changes no state of the client: the pending tables, the outcomes and
\* positions of the callers, the task, the queue and the wire are as they
\* were, and the reader goes on running.
C29_NotificationChangesNothing ==
  [][ JustRead("notification") =>
        /\ pending' = pending /\ outcome' = outcome /\ cpc' = cpc /\ cid' = cid
        /\ tpc' = tpc /\ rxAlive' = rxAlive /\ queue' = queue /\ wire' = wire
        /\ request_id' = request_id /\ reader' = reader /\ clients' = clients
    ]_vars

\* A notification arrived while a request was registered and its caller
\* waiting: the slot is in the table and the caller still waits.
C29_Witness ==
  /\ rxLog = << <<1, "notification", 0>> >>
  /\ \E c \in Callers :
       /\ pending[1] = {<<2, c>>}
       /\ cpc[c] = "waiting" /\ outcome[c].kind = "none"
  /\ reader[1] = "running"

\* C30: the requests of a session are dequeued, given their ids and written
\* in the order in which they were sent on the channel.  A request that is
\* sent goes behind all those queued; the driver dequeues the one at the
\* head, gives it an id above every id given before and leaves the others
\* queued in their order, without an id; and the next write of the session
\* is the write of the request just dequeued, before any other dequeue.
C30_FifoOrder ==
  [][ \A s \in Sessions :
        /\ Len(queue'[s]) > Len(queue[s]) =>
             /\ Len(queue'[s]) = Len(queue[s]) + 1
             /\ \A i \in 1..Len(queue[s]) : queue'[s][i] = queue[s][i]
        /\ (tpc[s] = "recv" /\ tpc'[s] = "write") =>
             /\ queue[s] # <<>>
             /\ Len(queue'[s]) = Len(queue[s]) - 1
             /\ \A i \in 1..Len(queue'[s]) : queue'[s][i] = queue[s][i + 1]
             /\ cid[queue[s][1]] = 0
             /\ cid'[queue[s][1]] = request_id'[s]
             /\ \A d \in Dequeued(s) : cid[d] < cid'[queue[s][1]]
             /\ \A i \in 1..Len(queue'[s]) : cid'[queue'[s][i]] = 0
        /\ tpc[s] = "write" =>
             /\ Len(queue'[s]) >= Len(queue[s]) /\ request_id'[s] = request_id[s]
             /\ wire'[s] # wire[s] =>
                  wire'[s] = Append(wire[s], WireMsg("request", request_id[s]))
        /\ (tpc[s] # "write" /\ tpc[s] \in LoopPcs) => wire'[s] = wire[s]
    ]_vars

\* The first request of a session was dequeued with id 2 and its write is
\* due, while the request sent after it waits in the queue without an id.
C30_Witness ==
  \E s \in Sessions, c \in Callers, d \in Callers :
    /\ tpc[s] = "write" /\ request_id[s] = 2
    /\ chandle[c] = s /\ cid[c] = 2 /\ cpc[c] = "waiting"
    /\ queue[s] = <<d>> /\ cid[d] = 0 /\ cpc[d] = "waiting"
    /\ \A i \in 1..Len(wire[s]) : wire[s][i].kind # "request"

\* ------------------------------------------------- claims on the summary
\* The diagnostics the server sent with raw result i, as JSON values.
RawDiagnostics(i) == RawSamples[i].v["diagnostics"].v

\* The severity the claim gives to a diagnostic sent as JSON value dv.
ClaimedSeverity(dv) ==
  IF "severity" \in DOMAIN dv.v THEN dv.v["severity"].v ELSE 1

\* A diagnostics call got a list of well-formed diagnostics and returned.
DiagnosticsGot(i) ==
  /\ DiagnosticsDone /\ tresp.kind = "ok" /\ tresp.raw = i
  /\ GetDiagnostics(tresp).val # <<>>

\* C39: handle_code_diagnostics reports one item per diagnostic in the
\* order received, a missing severity as 1, and a summary in which each of
\* errors, warnings, info, hints is the number of diagnostics of effective
\* severity 1, 2, 3, 4, so that their sum is the number of diagnostics of
\* effective severity 1..4.
C39_SummaryCountsSeverities ==
  \A i \in 1..Len(RawSamples) :
    DiagnosticsGot(i) =>
      LET D == RawDiagnostics(i)
          n(x) == Cardinality({k \in 1..Len(D) : ClaimedSeverity(D[k]) = x})
          c == tpayload.counts
      IN  /\ Len(tpayload.list) = Len(D)
          /\ \A k \in 1..Len(D) : tpayload.list[k] = ClaimedSeverity(D[k])
          /\ c.errors = n(1) /\ c.warnings = n(2) /\ c.info = n(3) /\ c.hints = n(4)
          /\ c.errors + c.warnings + c.info + c.hints
               = Cardinality({k \in 1..Len(D) : ClaimedSeverity(D[k]) \in 1..4})

\* Six diagnostics came back, one of severity 7 and one without a severity:
\* six items, 2 errors, 2 warnings, 0 info, 1 hint.
C39_Witness ==
  /\ DiagnosticsGot(13)
  /\ tpayload.list = <<2, 1, 2, 4, 7, 1>>
  /\ tpayload.counts = [errors |-> 2, warnings |-> 2, info |-> 0, hints |-> 1]


\* ------------------------------------------------- claims on the manager
\* Caller c leaves its lookup for language l in this step.
LooksUp(c, l) ==
  /\ cpc[c] = "idle" /\ cpc'[c] # "idle"
  /\ FindConfig(cext'[c]) # 0 /\ LanguageOf(cext'[c]) = l

\* C33: once a handle for a language is in the cache the entry is never
\* taken out, and every get_client_for_file that looks the language up from
\* then on returns the cached handle and spawns nothing, whatever has
\* become of the session (server exited, handshake failed).
C33_CachedHandleIsKept ==
  [][\A l \in Languages :
       clients[l] # 0 =>
         /\ clients'[l] # 0
         /\ \A c \in Callers :
              LooksUp(c, l) =>
                /\ cpc'[c] = "have" /\ chandle'[c] = clients[l]
                /\ nsess' = nsess /\ clients' = clients]_vars

\* One session was ever created, its handshake has failed, one caller found
\* it closed and another holds its handle, ready to send.
C33_Witness ==
  \E c, e \in Callers :
    /\ c # e /\ nsess = 1 /\ tpc[1] = "failed" /\ clients[slang[1]] = 1
    /\ chandle[c] = 1 /\ outcome[c].kind = "closed"
    /\ chandle[e] = 1 /\ cpc[e] = "have"

\* ------------------------------------------- claims on late responses
\* The request of caller c went out on the wire of session s.
RequestWritten(s, c) ==
  /\ chandle[c] = s /\ cid[c] # 0
  /\ \E k \in 1..Len(wire[s]) : wire[s][k] = WireMsg("request", cid[c])

\* The slot of caller c leaves the table of session s in this step, after
\* the caller has timed out and its request was written: the reader handles
\* a message that carries its id.
LateResponse(s, c) ==
  /\ outcome[c].kind = "timeout" /\ RequestWritten(s, c)
  /\ <<cid[c], c>> \in pending[s] /\ <<cid[c], c>> \notin pending'[s]

\* C36: a response that arrives after its caller timed out makes the reader
\* remove the slot and nothing else: no caller's outcome changes (the
\* timed-out caller keeps its timeout error), no other slot is touched and
\* the reader goes on.
C36_LateResponseIsDropped ==
  [][\A s \in Sessions : \A c \in Callers :
       LateResponse(s, c) =>
         /\ outcome' = outcome /\ cpc' = cpc
         /\ pending'[s] = pending[s] \ {<<cid[c], c>>}
         /\ reader'[s] = "running" /\ tpc' = tpc]_vars

\* A caller has its timeout error, its request is on the wire and its slot
\* has left the table, while the other caller of the session got its result.
C36_Witness ==
  \E s \in Sessions : \E c, e \in Callers :
    /\ c # e /\ outcome[c].kind = "timeout" /\ RequestWritten(s, c)
    /\ ~HasSlot(s, c) /\ reader[s] = "running"
    /\ chandle[e] = s /\ outcome[e].kind = "ok" /\ cid[e] > cid[c]

\* --------------------------------------- claims on a failed handshake
\* Caller c has a request in the queue of session s and awaits its result.
QueuedWaiting(s, c) ==
  SeqContains(queue[s], c) /\ cpc[c] = "waiting" /\ outcome[c].kind = "none"

\* C37: when the handshake fails the task ends with neither loop started
\* and no user request written; the requests queued at that moment are
\* resolved as cancelled and every request submitted afterwards fails with
\* "LSP client is closed".
C37_FailedHandshakeEndsTask ==
  /\ [](\A s \in Sessions :
          tpc[s] = "failed" =>
            /\ reader[s] = "none" /\ pending[s] = {} /\ queue[s] = <<>>
            /\ \A k \in 1..Len(wire[s]) : wire[s][k].kind # "request"
            /\ \A c \in Callers :
                 chandle[c] = s =>
                   /\ cpc[c] # "waiting" /\ cid[c] = 0
                   /\ outcome[c].kind \in {"none", "cancelled", "closed", "timeout"})
  /\ [][\A s \in Sessions : \A c \in Callers :
          /\ (tpc[s] # "failed" /\ tpc'[s] = "failed" /\ QueuedWaiting(s, c))
               => (outcome'[c] = Out("cancelled", 0) /\ cpc'[c] = "done")
          /\ (tpc[s] = "failed" /\ chandle[c] = s /\ cpc[c] = "have" /\ cpc'[c] # "have")
               => (outcome'[c] = Out("closed", 0) /\ cpc'[c] = "done"
                   /\ queue' = queue /\ wire' = wire)]_vars

\* The handshake of a session failed while one caller's request was queued,
\* and the other caller submitted afterwards: cancelled and closed.
C37_Witness ==
  \E s \in Sessions : \E c, e \in Callers :
    /\ tpc[s] = "failed" /\ chandle[c] = s /\ chandle[e] = s
    /\ outcome[c].kind = "cancelled" /\ outcome[e].kind = "closed"

\* ------------------------------------------ claims on slot registration
\* C34: the slot of a request is in the table before the request is
\* written: while the driver is about to write, and from the write on, the
\* slot is registered unless the request has been resolved or given up
\* already, so no response to a written request arrives before its slot.
C34_SlotBeforeWrite ==
  \A s \in Sessions :
    /\ tpc[s] = "write" =>
         \E c \in Callers :
           /\ chandle[c] = s /\ cid[c] = request_id[s]
           /\ (<<cid[c], c>> \in pending[s] \/ outcome[c].kind # "none")
    /\ \A c \in Callers :
         RequestWritten(s, c) =>
           (<<cid[c], c>> \in pending[s] \/ outcome[c].kind # "none")

\* Two requests are on the wire of one session, both slots are registered
\* and both callers await.
C34_Witness ==
  \E s \in Sessions : \A c \in Callers :
    /\ RequestWritten(s, c) /\ <<cid[c], c>> \in pending[s]
    /\ cpc[c] = "waiting" /\ outcome[c].kind = "none"

\* ------------------------------------- claims on server-sent requests
\* C35: a message of the server that has a method field and an id, a
\* request of the server's own, removes no slot and resolves no caller,
\* whatever its id.
C35_ServerRequestResolvesNothing ==
  [][JustRead("request") =>
       (pending' = pending /\ outcome' = outcome /\ cpc' = cpc)]_vars

\* ------------------------------------------- claims on a session's end
\* C38: after the handshake the driver loop ends and the child is killed
\* only when no handle to the session is left and the queue is empty, and
\* then it does: a session the cache holds is never ended by the client,
\* and a session without handles, such as the duplicate of a racing
\* creation once its callers have returned, is eventually ended.
C38_EndsWhenHandlesDropped ==
  /\ [](\A s \in Sessions : tpc[s] = "ended" => Handles(s) = {})
  /\ [][\A s \in Sessions :
          (tpc[s] # "ended" /\ tpc'[s] = "ended") =>
            (tpc[s] = "recv" /\ Handles(s) = {} /\ queue[s] = <<>>)]_vars
  /\ \A s \in Sessions :
       (tpc[s] \in LoopPcs /\ Handles(s) = {}) ~> (tpc[s] = "ended")

\* Two sessions for one language came of a racing creation; the one whose
\* cache entry was overwritten has ended, the cached one is in its loop.
C38_Witness ==
  \E s, t \in Sessions :
    /\ s # t /\ nsess = 2 /\ slang[s] = slang[t] /\ clients[slang[t]] = t
    /\ tpc[s] = "ended" /\ tpc[t] \in LoopPcs
    /\ \A c \in Callers : cpc[c] = "gone"

\* --------------------------------------- claims on the mutex and stdin
\* C31: the table changes only in a step of the task that holds the mutex,
\* and the mutex is held only between its acquisition and the insert or
\* remove that follows: never by the task while it waits for a request, a
\* write or the handshake's line, never by the reader while it waits for a
\* line.
C31_MutexOnlyAroundTable ==
  /\ [](/\ mutex = "driver" => dpc \in {"insert", "remove"}
        /\ mutex = "reader" => rpc = "remove")
  /\ [][table' # table =>
          \/ mutex = "driver" /\ dpc \in {"insert", "remove"} /\ dpc' # dpc /\ rpc' = rpc
          \/ mutex = "reader" /\ rpc = "remove" /\ rpc' # rpc /\ dpc' = dpc]_vars

\* The task is in the middle of a write to stdin with a slot registered
\* while the reader holds the mutex and is about to remove a slot.
C31_Witness ==
  dpc = "body" /\ cur.kind = "request" /\ mutex = "reader" /\ rid \in table

\* Chunks k and n of stdin belong to the same message.
SameMessage(k, n) == stdin[k].kind = stdin[n].kind /\ stdin[k].id = stdin[n].id

\* C32: only the task writes to stdin, whatever the callers do meanwhile:
\* the bytes of one message are never split by bytes of another, and every
\* body on stdin follows the header of its own message, which states the
\* body's length in bytes.
C32_OneWriterFramesMessages ==
  /\ [](/\ \A i, j, k \in 1..Len(stdin) :
             (i < j /\ j < k /\ SameMessage(i, k)) => SameMessage(i, j)
        /\ \A k \in 1..Len(stdin) :
             stdin[k].part = "body" =>
               /\ k > 1 /\ stdin[k - 1].part = "header" /\ SameMessage(k - 1, k)
               /\ stdin[k - 1].len = Utf8Len(stdin[k].text))
  /\ [][stdin' # stdin =>
          /\ dpc \in {"header", "body"} /\ dpc' # dpc
          /\ backlog' = backlog /\ rpc' = rpc
          /\ Len(stdin') = Len(stdin) + 1 /\ SubSeq(stdin', 1, Len(stdin)) = stdin]_vars

\* A request whose text has a character of two bytes is on stdin whole, its
\* header stating 3, while another request is queued behind it.
C32_Witness ==
  /\ backlog # <<>>
  /\ \E k \in 2..Len(stdin) :
       /\ stdin[k].part = "body" /\ stdin[k].kind = "request"
       /\ stdin[k].text = <<1, 2>> /\ stdin[k - 1].len = 3

====
